---- MODULE Spec2Model ----
(***************************************************************************)
(* Model of the PostgreSQL change-data-capture connector                   *)
(* (source-postgres/capture.go, source-postgres/backfill.go): the          *)
(* interleaving of chunked backfill scans with the logical replication     *)
(* stream, fenced by watermark writes.                                     *)
(*                                                                         *)
(* Processes: the database (committing row writes and appending them to    *)
(* the replication log), the replication reader task (decoding the log     *)
(* onto a bounded event channel), and the capture task (updateState, then  *)
(* streamChanges with its streamToWatermark / emitBuffered /               *)
(* backfillStreams / writeWatermark loop, then the streaming loop).        *)
(*                                                                         *)
(* Every committed write is one transaction of one row event followed by   *)
(* its Commit; the log position (LSN) of a transaction is its index in     *)
(* wal. The value written by a write is the index of that write, so every  *)
(* version of a row is distinguishable; rows present before the capture    *)
(* started carry value 0.                                                  *)
(***************************************************************************)
EXTENDS Integers, Sequences, FiniteSets, TLC

\* ------------------------------------------------------------------ bounds
MaxKey == 2
MaxWrites == 2
MaxChunk == 2
ChanCap == 3
MaxRestarts == 1
MaxEncodeErr == 6
MaxTicks == 2

Keys == 1 .. MaxKey

\* ------------------------------------------------------------ identifiers
defaultSchemaName == "public"
tableModeBackfill == "Backfill"
tableModeActive == "Active"
tableModeIgnore == "Ignore"

TblT == <<"public", "t">>
TblU == <<"public", "u">>
TblW == <<"public", "watermarks">>
\* a table captured by an earlier run and no longer configured
TblOld == <<"public", "old">>
DataTables == {TblT, TblU}
\* The keys the database's clients write: TblT takes writes on the keys ks, the
\* second table is only read.
KeysOf(tbl, ks) == IF tbl = TblT THEN ks ELSE {}
SlotName == "slot"

\* sort.Strings order of the stream ids used here
StreamOrder == <<TblOld, TblT, TblU, TblW>>

\* strings.ToLower on the identifiers that occur
ToLower(s) ==
  CASE s = "T" -> "t"
    [] s = "U" -> "u"
    [] s = "Public" -> "public"
    [] s = "Watermarks" -> "watermarks"
    [] OTHER -> s

\* A stream id is lowercase(namespace + "." + table), kept as the pair of its
\* two lower-cased halves.
joinStreamID(namespace, stream) ==
  <<ToLower(IF namespace = "" THEN defaultSchemaName ELSE namespace), ToLower(stream)>>

\* ------------------------------------------------------------- map helpers
Put(f, k, v) == [x \in (DOMAIN f) \cup {k} |-> IF x = k THEN v ELSE f[x]]
Del(f, k) == [x \in (DOMAIN f) \ {k} |-> f[x]]
EmptyMap == [x \in {} |-> 0]

RECURSIVE SeqFilterIn(_, _)
SeqFilterIn(s, S) ==
  IF s = <<>> THEN <<>>
  ELSE IF Head(s) \in S THEN <<Head(s)>> \o SeqFilterIn(Tail(s), S)
  ELSE SeqFilterIn(Tail(s), S)

\* ------------------------------------------------------------- tuple codec
\* Order-preserving tuple encoding of small non-negative integers: a type tag
\* followed by the big-endian magnitude (tag 20 for zero, 21 for one byte).
IntTag0 == 20
IntTag1 == 21
EncodeInt(n) == IF n = 0 THEN <<IntTag0>> ELSE <<IntTag1, n>>

RECURSIVE EncodeTuple(_)
EncodeTuple(t) == IF t = <<>> THEN <<>> ELSE EncodeInt(Head(t)) \o EncodeTuple(Tail(t))

encodeRowKey(scanKey, fields) ==
  EncodeTuple([i \in 1 .. Len(scanKey) |-> fields[scanKey[i]]])

\* bytes.Compare
RECURSIVE compareTuples(_, _)
compareTuples(a, b) ==
  IF a = <<>> /\ b = <<>> THEN 0
  ELSE IF a = <<>> THEN 0 - 1
  ELSE IF b = <<>> THEN 1
  ELSE IF Head(a) < Head(b) THEN 0 - 1
  ELSE IF Head(a) > Head(b) THEN 1
  ELSE compareTuples(Tail(a), Tail(b))

\* The resume key of a scan: the tuple decoded from the persisted Scanned
\* bytes (single integer scan keys).
DecodeKey(bs) == IF Len(bs) = 1 THEN 0 ELSE bs[2]

\* ---------------------------------------------------------------- database
RowFields(k, v) == [id |-> k, v |-> v]

Event(type, tbl, fields, lsn) ==
  [Type |-> type, Namespace |-> tbl[1], Table |-> tbl[2], Fields |-> fields, LSN |-> lsn]

\* One table after one logged row write.
ApplyRow(rows, e) ==
  IF e.Type = "Delete" THEN Del(rows, e.Fields.id) ELSE Put(rows, e.Fields.id, e.Fields.v)

ApplyEntry(d, e) ==
  LET tbl == <<e.Namespace, e.Table>> IN
  IF tbl \in DataTables THEN [d EXCEPT ![tbl] = ApplyRow(d[tbl], e)] ELSE d

RECURSIVE Replay(_, _, _)
Replay(d, w, n) == IF n = 0 THEN d ELSE ApplyEntry(Replay(d, w, n - 1), w[n])

\* SELECT * FROM t [WHERE (key) > (resume)] ORDER BY (key) LIMIT n, over the
\* rows committed at the time of the query. start is TRUE when there is no
\* resume key.
RECURSIVE FirstKeys(_, _)
FirstKeys(S, n) ==
  IF n = 0 \/ S = {} THEN <<>>
  ELSE LET m == CHOOSE x \in S : \A y \in S : x <= y
       IN <<m>> \o FirstKeys(S \ {m}, n - 1)

\* Mutant: the resume comparison is >= instead of >.
buildScanQuery_Inclusive(start, rows, resume, limit) ==
  FirstKeys({k \in DOMAIN rows : start \/ k >= resume}, limit)

buildScanQuery(start, rows, resume, limit) ==
  FirstKeys({k \in DOMAIN rows : start \/ k > resume}, limit)

ScanTableChunk(rows, streamID, resumeKey, limit) ==
  LET ks == buildScanQuery(resumeKey = <<>>, rows,
                           IF resumeKey = <<>> THEN 0 ELSE DecodeKey(resumeKey), limit)
  IN [i \in 1 .. Len(ks) |-> Event("Insert", streamID, RowFields(ks[i], rows[ks[i]]), 0)]

\* The query text buildScanQuery builds, by its parts: whether it has the
\* WHERE (pkey) > (args) clause, the key columns and the LIMIT.
ScanQuery(start, keyColumns, limit) ==
  [where |-> ~start, pkey |-> keyColumns, limit |-> limit]

\* PostgreSQL's comparison of two row constructors: the first column that
\* differs decides.
RECURSIVE RowCompare(_, _)
RowCompare(a, b) ==
  IF a = <<>> \/ b = <<>> THEN 0
  ELSE IF Head(a) < Head(b) THEN 0 - 1
  ELSE IF Head(a) > Head(b) THEN 1
  ELSE RowCompare(Tail(a), Tail(b))

\* The key columns of a row, as a row constructor.
RowKey(row, pkey) == [i \in 1 .. Len(pkey) |-> row[pkey[i]]]

\* ORDER BY (pkey) LIMIT n over a set of rows.
RECURSIVE OrderLimit(_, _, _)
OrderLimit(S, pkey, n) ==
  IF n = 0 \/ S = {} THEN <<>>
  ELSE LET m == CHOOSE x \in S : \A y \in S : RowCompare(RowKey(x, pkey), RowKey(y, pkey)) <= 0
       IN <<m>> \o OrderLimit(S \ {m}, pkey, n - 1)

\* Mutant: the WHERE clause compares the first key column only.
QueryRows_FirstColumn(q, rows, args) ==
  OrderLimit({r \in rows : q.where => r[q.pkey[1]] > args[1]}, q.pkey, q.limit)

\* The rows the database returns for the query with the arguments args.
QueryRows(q, rows, args) ==
  OrderLimit({r \in rows : q.where => RowCompare(RowKey(r, q.pkey), args) > 0},
             q.pkey, q.limit)

\* ScanTableChunk over a table whose rows are their two key columns.
ScanTableChunk2(rows, keyColumns, resumeKey, limit) ==
  QueryRows(ScanQuery(resumeKey = <<>>, keyColumns, limit), rows, resumeKey)

\* ------------------------------------------------------------- result set
\* One backfill chunk per stream, its rows keyed by encoded scan key.
NilResults == [isNil |-> TRUE, streams |-> EmptyMap]
newResultSet == [isNil |-> FALSE, streams |-> EmptyMap]

MaxTuple(a, b) == IF compareTuples(a, b) < 0 THEN b ELSE a

RECURSIVE LastScanned(_, _)
LastScanned(scanKey, evts) ==
  IF evts = <<>> THEN <<>>
  ELSE MaxTuple(encodeRowKey(scanKey, evts[Len(evts)].Fields),
                LastScanned(scanKey, SubSeq(evts, 1, Len(evts) - 1)))

Buffer(rs, streamID, scanKey, evts, chunkSize) ==
  LET rows == [bs \in {encodeRowKey(scanKey, evts[i].Fields) : i \in 1 .. Len(evts)} |->
                 evts[CHOOSE i \in 1 .. Len(evts) : encodeRowKey(scanKey, evts[i].Fields) = bs]]
      chunk == [rows |-> rows,
                complete |-> Len(evts) < chunkSize,
                scanned |-> LastScanned(scanKey, evts),
                scanKey |-> scanKey]
  IN [rs EXCEPT !.streams = Put(rs.streams, streamID, chunk)]

\* Mutant: a Delete leaves the buffered row in place.
PatchRows_KeepDeleted(rows, bs, evt) ==
  IF evt.Type = "Delete" THEN rows
  ELSE Put(rows, bs, [evt EXCEPT !.Type = "Insert"])

\* Mutant: a row already buffered is not overwritten.
PatchRows_KeepFirst(rows, bs, evt) ==
  IF evt.Type = "Delete" THEN Del(rows, bs)
  ELSE IF bs \in DOMAIN rows THEN rows
  ELSE Put(rows, bs, [evt EXCEPT !.Type = "Insert"])

PatchRows(rows, bs, evt) ==
  IF evt.Type = "Delete" THEN Del(rows, bs)
  ELSE Put(rows, bs, [evt EXCEPT !.Type = "Insert"])

\* Mutant: every key counts as within the chunk.
InChunkRange_Always(chunk, bs) == TRUE

\* A key is in the range of the buffered chunk when it is not beyond the last
\* scanned key, or when the chunk is the final (complete) one of its table.
InChunkRange(chunk, bs) == chunk.complete \/ compareTuples(bs, chunk.scanned) <= 0

\* Mutant: an event is patched into the chunk whatever its key.
Patch_AnyKey(rs, streamID, evt) ==
  IF rs.isNil \/ streamID \notin DOMAIN rs.streams THEN rs
  ELSE LET chunk == rs.streams[streamID]
           bs == encodeRowKey(chunk.scanKey, evt.Fields)
       IN [rs EXCEPT !.streams[streamID].rows = PatchRows(chunk.rows, bs, evt)]

Patch(rs, streamID, evt) ==
  IF rs.isNil \/ streamID \notin DOMAIN rs.streams THEN rs
  ELSE LET chunk == rs.streams[streamID]
           bs == encodeRowKey(chunk.scanKey, evt.Fields)
       IN IF ~InChunkRange(chunk, bs) THEN rs
          ELSE [rs EXCEPT !.streams[streamID].rows = PatchRows(chunk.rows, bs, evt)]

Streams(rs) == IF rs.isNil THEN <<>> ELSE SeqFilterIn(StreamOrder, DOMAIN rs.streams)

RECURSIVE SortTuples(_)
SortTuples(S) ==
  IF S = {} THEN <<>>
  ELSE LET m == CHOOSE x \in S : \A y \in S : compareTuples(x, y) <= 0
       IN <<m>> \o SortTuples(S \ {m})

\* Mutant: the rows are returned in descending key order.
Changes_Descending(rs, streamID) ==
  LET rows == rs.streams[streamID].rows
      ks == SortTuples(DOMAIN rows)
  IN [i \in 1 .. Len(ks) |-> rows[ks[Len(ks) + 1 - i]]]

Changes(rs, streamID) ==
  LET rows == rs.streams[streamID].rows
      ks == SortTuples(DOMAIN rows)
  IN [i \in 1 .. Len(ks) |-> rows[ks[i]]]

\* Mutant: the scanned key of a chunk is the key of the last row still buffered.
Scanned_LastBuffered(rs, streamID) ==
  LET ks == SortTuples(DOMAIN rs.streams[streamID].rows)
  IN IF ks = <<>> THEN <<>> ELSE ks[Len(ks)]

\* Mutant: every chunk counts as complete.
Complete_Always(rs, streamID) == TRUE

Complete(rs, streamID) == rs.streams[streamID].complete
Scanned(rs, streamID) == rs.streams[streamID].scanned

\* ------------------------------------------------------------------ state
VARIABLES
  db0,               \* table contents when the capture first started
  db,                \* committed table contents: table -> (key -> value)
  wal,               \* the replication log: one entry per committed transaction
  uuidCtr,           \* the next fresh watermark UUID
  backfillChunkSize, \* rows per scan query
  catalog,           \* the configured catalog: sequence of configured streams
  dbPrimaryKeys,     \* primary keys the database reports: stream id -> columns
  WatermarksTable,   \* config.WatermarksTable, as a stream id
  rdNext,            \* reader task: index of the next log entry to decode
  rdStep,            \* reader task: "row" or "commit" of that entry comes next
  rdLSN,             \* replicationStream.currentLSN, owned by the reader task
  chan,              \* the bounded event channel replStream.Events()
  closed,            \* the context is cancelled and the event channel closed
  pc,                \* capture task: position in RunCapture / streamChanges
  state,             \* c.state, the PersistentState
  watermark,         \* streamChanges: the watermark being awaited
  watermarkReached,  \* streamToWatermark: local flag
  results,           \* streamChanges: the buffered resultSet (or nil)
  toScan,            \* backfillStreams: streams still to scan in this call
  changes,           \* c.changesSinceLastCheckpoint
  out,               \* messages written to the encoder, oldest first
  cycle,             \* history: number of watermarks written by this run
  fences,            \* history: the log positions of those watermarks
  consumed,          \* history: row events received, with the drain that got them
  setFrom,           \* history: LSN of the Commit event at the last CurrentLSN store
  scans,             \* history: scan queries issued by this run
  startLSN,          \* history: the position this run's replication started from
  startState,        \* history: the state this run was started with
  resumedAt,         \* history: index in out of the State message the run resumed from
  writeKeys,         \* the keys of TblT the database's clients write
  writeWindow,       \* when they write: "any" time, or "firstScan": between the
                     \* first watermark and the first scan
  encodeErrAt,       \* c.encoder: the index of the message whose Encode fails (0: none)
  encodeSticky,      \* c.encoder: once an Encode has failed, every later one fails
  encodeFailed,      \* history: an Encode call has returned an error
  raceDeletes,       \* history: deletes committed while their key was not yet flushed
  restarts,          \* history: number of restarts
  tail,              \* catalog.Tail
  maxLifespan,       \* config.MaxLifespanSeconds, in clock ticks (0: unset)
  pollTimeout,       \* config.PollTimeoutSeconds, in clock ticks (0: unset)
  cancelledBy,       \* what ended the context: "", "parent", "deadline" or "watchdog"
  elapsed,           \* ticks since RunCapture started (the max_lifespan timer)
  idle,              \* ticks since the watchdog timer was last started or reset
  returned,          \* what RunCapture returned: "" (still running), "nil" or "error"
  quiet,             \* history: ticks since the last message was written to out
  scan,              \* one chunk scan of a table with a two-column key, and its result
  kinesis            \* the Kinesis reader (doRead): its channel, tasks, state and output

vars == <<db0, db, wal, uuidCtr, backfillChunkSize, catalog, dbPrimaryKeys,
          WatermarksTable, rdNext, rdStep, rdLSN, chan, closed, pc, state,
          watermark, watermarkReached, results, toScan, changes, out, cycle,
          fences, consumed, setFrom, scans, startLSN, startState, resumedAt, writeKeys, writeWindow, encodeSticky,
          encodeErrAt, encodeFailed, raceDeletes, restarts, tail, maxLifespan,
          pollTimeout, cancelledBy, elapsed, idle, returned, quiet, scan, kinesis>>

envVars == <<db0, backfillChunkSize, catalog, dbPrimaryKeys, WatermarksTable,
             writeKeys, writeWindow, encodeErrAt, encodeSticky, tail, maxLifespan,
             pollTimeout, scan, kinesis>>
dbVars == <<db, wal, uuidCtr>>
readerVars == <<rdNext, rdStep, rdLSN, chan>>
histVars == <<cycle, fences, consumed, setFrom, scans, startLSN, startState, resumedAt, restarts>>
auxVars == <<encodeFailed, raceDeletes>>
runVars == <<idle, returned>>

\* ------------------------------------------------------- persistent state
TableState(mode, scanKey, scanned) ==
  [Mode |-> mode, ScanKey |-> scanKey, Scanned |-> scanned]

PersistentState(lsn, streams, isNil) ==
  [CurrentLSN |-> lsn, Streams |-> streams, StreamsNil |-> isNil]

\* Mutant: every known stream is reported, whatever its mode.
pendingStreams_AnyMode(ps) == SeqFilterIn(StreamOrder, DOMAIN ps.Streams)

\* Mutant: no stream is ever pending.
pendingStreams_None(ps) == <<>>

pendingStreams(ps) ==
  SeqFilterIn(StreamOrder,
              {id \in DOMAIN ps.Streams : ps.Streams[id].Mode = tableModeBackfill})

\* ----------------------------------------------------------------- output
\* Site and Cycle are history annotations (the call site that wrote the
\* message and the number of watermarks written so far); they are not part of
\* the encoded message.
translateRecordField(val) == val

RecordMsg(evt, site, cyc) ==
  [Type |-> "RECORD", Namespace |-> evt.Namespace, Stream |-> evt.Table,
   Data |-> [f \in (DOMAIN evt.Fields) \cup {"_change_type"} |->
               IF f = "_change_type" THEN evt.Type ELSE translateRecordField(evt.Fields[f])],
   Site |-> site, Cycle |-> cyc]

StateMsg(ps, site, cyc) ==
  [Type |-> "STATE", Namespace |-> "", Stream |-> "", Data |-> ps,
   Site |-> site, Cycle |-> cyc]

handleChangeEvent(o, evt, site, cyc) == Append(o, RecordMsg(evt, site, cyc))

emitState(o, ps, site, cyc) == Append(o, StateMsg(ps, site, cyc))

\* c.encoder.Encode over the messages o2 adds to o, in order: the message at
\* index errAt, if it is among them and no Encode has failed yet, is not written
\* and its Encode returns an error, which ends the writing. An encoder that
\* has failed fails again on every later message when sticky, and on none
\* otherwise.
Encode(o, o2, errAt, failed, sticky) ==
  IF failed
    THEN IF sticky /\ Len(o2) > Len(o) THEN [out |-> o, err |-> TRUE]
         ELSE [out |-> o2, err |-> FALSE]
  ELSE IF errAt > Len(o) /\ errAt <= Len(o2)
    THEN [out |-> SubSeq(o2, 1, errAt - 1), err |-> TRUE]
    ELSE [out |-> o2, err |-> FALSE]

\* ------------------------------------------------------------ updateState
ConfiguredStream(ns, name, pk) == [Namespace |-> ns, Name |-> name, PrimaryKey |-> pk]

CatalogIDs(cat) == {joinStreamID(cat[i].Namespace, cat[i].Name) : i \in 1 .. Len(cat)}

\* The loop over the catalog streams: acc is [err, streams, dirty].
RECURSIVE AddStreams(_, _, _)
AddStreams(cat, dbpk, acc) ==
  IF cat = <<>> \/ acc.err THEN acc
  ELSE LET cs == Head(cat)
           streamID == joinStreamID(cs.Namespace, cs.Name)
           badCol == \E i \in 1 .. Len(cs.PrimaryKey) : Len(cs.PrimaryKey[i]) # 1
           catalogPrimaryKey == [i \in 1 .. Len(cs.PrimaryKey) |-> cs.PrimaryKey[i][1]]
           dbKey == IF streamID \in DOMAIN dbpk THEN dbpk[streamID] ELSE <<>>
           primaryKey == IF Len(catalogPrimaryKey) # 0 THEN catalogPrimaryKey ELSE dbKey
       IN IF badCol THEN [acc EXCEPT !.err = TRUE]
          ELSE IF Len(primaryKey) = 0 THEN [acc EXCEPT !.err = TRUE]
          ELSE IF streamID \notin DOMAIN acc.streams
            THEN AddStreams(Tail(cat), dbpk,
                   [acc EXCEPT !.streams = Put(acc.streams, streamID,
                                               TableState(tableModeBackfill, primaryKey, <<>>)),
                               !.dirty = TRUE])
          ELSE IF acc.streams[streamID].ScanKey # primaryKey
            THEN [acc EXCEPT !.err = TRUE]
          ELSE AddStreams(Tail(cat), dbpk, acc)

\* Mutant: no stream is forgotten.
RemoveStreams_KeepAll(cat, acc) == acc

\* Mutant: a stream is forgotten without the state being marked as altered.
RemoveStreams_Silent(cat, acc) ==
  LET keep == (DOMAIN acc.streams) \cap CatalogIDs(cat)
  IN [acc EXCEPT !.streams = [id \in keep |-> acc.streams[id]]]

\* The loop forgetting the streams that left the catalog.
RemoveStreams(cat, acc) ==
  LET keep == (DOMAIN acc.streams) \cap CatalogIDs(cat)
  IN [acc EXCEPT !.streams = [id \in keep |-> acc.streams[id]],
                 !.dirty = acc.dirty \/ keep # DOMAIN acc.streams]

\* Mutant: the key checks never fail.
updateState_NoKeyCheck(ps, cat, dbpk) ==
  LET a1 == AddStreams(cat, dbpk, [err |-> FALSE, streams |-> ps.Streams, dirty |-> ps.StreamsNil])
      a2 == RemoveStreams(cat, a1)
  IN [err |-> FALSE,
      state |-> PersistentState(ps.CurrentLSN, a2.streams, FALSE),
      dirty |-> a2.dirty]

\* Mutant: a new stream takes the database's key when there is one, and the
\* catalog's only otherwise.
updateState_DbKeyFirst(ps, cat, dbpk) ==
  LET a1 == AddStreams(cat, dbpk, [err |-> FALSE, streams |-> ps.Streams, dirty |-> ps.StreamsNil])
      a2 == IF a1.err THEN a1 ELSE RemoveStreams(cat, a1)
      streams == [id \in DOMAIN a2.streams |->
                    IF id \notin DOMAIN ps.Streams /\ id \in DOMAIN dbpk /\ dbpk[id] # <<>>
                      THEN [a2.streams[id] EXCEPT !.ScanKey = dbpk[id]]
                      ELSE a2.streams[id]]
  IN [err |-> a2.err,
      state |-> PersistentState(ps.CurrentLSN, streams, FALSE),
      dirty |-> a2.dirty]

\* Result [err, state, dirty] of updateState on ps.
updateState(ps, cat, dbpk) ==
  LET a0 == [err |-> FALSE, streams |-> ps.Streams, dirty |-> ps.StreamsNil]
      a1 == AddStreams(cat, dbpk, a0)
      a2 == IF a1.err THEN a1 ELSE RemoveStreams(cat, a1)
  IN [err |-> a2.err,
      state |-> PersistentState(ps.CurrentLSN, a2.streams, FALSE),
      dirty |-> a2.dirty]

\* --------------------------------------------------------- streamToWatermark
\* Mutant: the comparison with Scanned is inverted.
DrainRow_Inverted(evt, ps, rs, o, cyc) ==
  LET streamID == joinStreamID(evt.Namespace, evt.Table)
      known == streamID \in DOMAIN ps.Streams
      tableState == ps.Streams[streamID]
      rowKey == encodeRowKey(tableState.ScanKey, evt.Fields)
  IN IF ~known \/ tableState.Mode = tableModeIgnore
       THEN [out |-> o, results |-> rs, emitted |-> 0, err |-> FALSE]
     ELSE IF tableState.Mode = tableModeActive
       THEN [out |-> handleChangeEvent(o, evt, "streamToWatermark", cyc),
             results |-> rs, emitted |-> 1, err |-> FALSE]
     ELSE IF tableState.Mode # tableModeBackfill
       THEN [out |-> o, results |-> rs, emitted |-> 0, err |-> TRUE]
     ELSE IF compareTuples(rowKey, tableState.Scanned) >= 0
       THEN [out |-> handleChangeEvent(o, evt, "streamToWatermark", cyc),
             results |-> rs, emitted |-> 1, err |-> FALSE]
     ELSE [out |-> o, results |-> Patch(rs, streamID, evt), emitted |-> 0, err |-> FALSE]

\* Mutant: an event beyond the scanned key is patched and emitted as well.
DrainRow_EmitAndPatch(evt, ps, rs, o, cyc) ==
  LET streamID == joinStreamID(evt.Namespace, evt.Table)
      known == streamID \in DOMAIN ps.Streams
      tableState == ps.Streams[streamID]
  IN IF ~known \/ tableState.Mode = tableModeIgnore
       THEN [out |-> o, results |-> rs, emitted |-> 0, err |-> FALSE]
     ELSE IF tableState.Mode = tableModeActive
       THEN [out |-> handleChangeEvent(o, evt, "streamToWatermark", cyc),
             results |-> rs, emitted |-> 1, err |-> FALSE]
     ELSE IF tableState.Mode # tableModeBackfill
       THEN [out |-> o, results |-> rs, emitted |-> 0, err |-> TRUE]
     ELSE [out |-> handleChangeEvent(o, evt, "streamToWatermark", cyc),
           results |-> Patch(rs, streamID, evt), emitted |-> 1, err |-> FALSE]

\* The handling of one row event by the drain loop: [out, results, emitted].
DrainRow(evt, ps, rs, o, cyc) ==
  LET streamID == joinStreamID(evt.Namespace, evt.Table)
      known == streamID \in DOMAIN ps.Streams
      tableState == ps.Streams[streamID]
      rowKey == encodeRowKey(tableState.ScanKey, evt.Fields)
  IN IF ~known \/ tableState.Mode = tableModeIgnore
       THEN [out |-> o, results |-> rs, emitted |-> 0, err |-> FALSE]
     ELSE IF tableState.Mode = tableModeActive
       THEN [out |-> handleChangeEvent(o, evt, "streamToWatermark", cyc),
             results |-> rs, emitted |-> 1, err |-> FALSE]
     ELSE IF tableState.Mode # tableModeBackfill
       THEN [out |-> o, results |-> rs, emitted |-> 0, err |-> TRUE]
     ELSE IF compareTuples(rowKey, tableState.Scanned) <= 0
       THEN [out |-> handleChangeEvent(o, evt, "streamToWatermark", cyc),
             results |-> rs, emitted |-> 1, err |-> FALSE]
     ELSE [out |-> o, results |-> Patch(rs, streamID, evt), emitted |-> 0, err |-> FALSE]

\* Mutant: no event is taken for the awaited watermark.
IsWatermark_Never(evt, wmTable, wm) == FALSE

\* Mutant: the event's stream is compared with the table the configured name
\* denotes.
IsWatermark_Resolved(evt, wmTable, wm) ==
  joinStreamID(evt.Namespace, evt.Table) = joinStreamID(wmTable[1], wmTable[2])
    /\ evt.Fields["watermark"] = wm

\* Whether a row event is the awaited watermark write.
IsWatermark(evt, wmTable, wm) ==
  joinStreamID(evt.Namespace, evt.Table) = wmTable /\ evt.Fields["watermark"] = wm

\* Mutant: the position is left at its zero value.
CommitLSN_Unset(evt, streamLSN) == 0

\* The log position stored on a Commit event: c.replStream.CurrentLSN().
CommitLSN(evt, streamLSN) == streamLSN

\* --------------------------------------------------------------- emitBuffered
\* The loop over the buffered streams: acc is [out, streams, n].
RECURSIVE FlushStreams(_, _, _, _)
FlushStreams(ids, rs, acc, cyc) ==
  IF ids = <<>> THEN acc
  ELSE LET streamID == Head(ids)
           evts == Changes(rs, streamID)
           o == acc.out \o [i \in 1 .. Len(evts) |-> RecordMsg(evts[i], "emitBuffered", cyc)]
           ts == acc.streams[streamID]
           ts2 == IF Complete(rs, streamID)
                    THEN [ts EXCEPT !.Mode = tableModeActive, !.Scanned = <<>>]
                    ELSE [ts EXCEPT !.Scanned = Scanned(rs, streamID)]
       IN FlushStreams(Tail(ids), rs,
                       [out |-> o,
                        streams |-> [acc.streams EXCEPT ![streamID] = ts2],
                        n |-> acc.n + Len(evts)],
                       cyc)

\* Mutant: a State message is written after each stream's rows.
RECURSIVE FlushStreams_StateEach(_, _, _, _, _)
FlushStreams_StateEach(ids, rs, acc, ps, cyc) ==
  IF ids = <<>> THEN acc
  ELSE LET a == FlushStreams(<<Head(ids)>>, rs, acc, cyc)
           o == emitState(a.out, [ps EXCEPT !.Streams = a.streams], "emitBuffered", cyc)
       IN FlushStreams_StateEach(Tail(ids), rs, [a EXCEPT !.out = o], ps, cyc)

emitBuffered_StatePerStream(rs, ps, o, cyc) ==
  LET a == FlushStreams_StateEach(Streams(rs), rs,
                                  [out |-> o, streams |-> ps.Streams, n |-> 0], ps, cyc)
      ps2 == [ps EXCEPT !.Streams = a.streams]
  IN [out |-> IF Streams(rs) = <<>> THEN emitState(a.out, ps2, "emitBuffered", cyc) ELSE a.out,
      state |-> ps2]

\* The table states emitBuffered has stored when an Encode fails after it wrote
\* w messages: those of the streams whose rows were all written.
FlushedBefore(rs, ps, w, cyc) ==
  LET ids == Streams(rs)
      upTo(n) == FlushStreams(SubSeq(ids, 1, n), rs,
                              [out |-> <<>>, streams |-> ps.Streams, n |-> 0], cyc)
      done == {n \in 0 .. Len(ids) : upTo(n).n <= w}
  IN upTo(CHOOSE n \in done : \A m \in done : m <= n).streams

\* Mutant: the flush stores the table state of a flushed stream anew, without
\* its scan key.
emitBuffered_DropKey(rs, ps, o, cyc) ==
  LET a == FlushStreams(Streams(rs), rs, [out |-> o, streams |-> ps.Streams, n |-> 0], cyc)
      ps2 == [ps EXCEPT !.Streams =
                [id \in DOMAIN a.streams |->
                   IF id \in DOMAIN rs.streams
                     THEN [a.streams[id] EXCEPT !.ScanKey = <<>>] ELSE a.streams[id]]]
  IN [out |-> emitState(a.out, ps2, "emitBuffered", cyc), state |-> ps2]

\* Mutant: a stream whose backfill is complete keeps the last scanned key.
emitBuffered_KeepScanned(rs, ps, o, cyc) ==
  LET a == FlushStreams(Streams(rs), rs, [out |-> o, streams |-> ps.Streams, n |-> 0], cyc)
      ps2 == [ps EXCEPT !.Streams =
                [id \in DOMAIN a.streams |->
                   IF id \in DOMAIN rs.streams /\ Complete(rs, id)
                     THEN [a.streams[id] EXCEPT !.Scanned = Scanned(rs, id)]
                     ELSE a.streams[id]]]
  IN [out |-> emitState(a.out, ps2, "emitBuffered", cyc), state |-> ps2]

\* Mutant: the flush writes the rows and no State message.
emitBuffered_NoState(rs, ps, o, cyc) ==
  LET a == FlushStreams(Streams(rs), rs, [out |-> o, streams |-> ps.Streams, n |-> 0], cyc)
  IN [out |-> a.out, state |-> [ps EXCEPT !.Streams = a.streams]]

\* Result [out, state] of emitBuffered.
emitBuffered(rs, ps, o, cyc) ==
  LET a == FlushStreams(Streams(rs), rs, [out |-> o, streams |-> ps.Streams, n |-> 0], cyc)
      ps2 == [ps EXCEPT !.Streams = a.streams]
  IN [out |-> emitState(a.out, ps2, "emitBuffered", cyc), state |-> ps2]

\* ----------------------------------------------------------- watermark writer
\* The table a configured (possibly unqualified, case-insensitive) name denotes.
ActualTable(cfg) == joinStreamID(cfg[1], cfg[2])

\* INSERT ... ON CONFLICT (slot) DO UPDATE: the log entry of the upsert.
WriteWatermark(w, cfg, wm) ==
  LET tbl == ActualTable(cfg)
      present == \E i \in 1 .. Len(w) : <<w[i].Namespace, w[i].Table>> = tbl
  IN Event(IF present THEN "Update" ELSE "Insert", tbl,
           [slot |-> SlotName, watermark |-> wm], Len(w) + 1)

\* ------------------------------------------------------------------- Init
InitialRows(S) == [k \in S |-> 0]

InitialDbs ==
  {[tbl \in DataTables |-> IF tbl = TblT THEN InitialRows(S) ELSE InitialRows(U)] :
     S \in SUBSET Keys, U \in {{1}}}

\* The state the run is started with: none (a first run), or the checkpoint of
\* an earlier run that captured TblOld up to the one write logged so far.
FreshState == PersistentState(0, EmptyMap, TRUE)
PriorLog == <<Event("Insert", TblOld, RowFields(1, 1), 1)>>
PriorState ==
  PersistentState(1, [id \in {TblOld} |-> TableState(tableModeActive, <<"id">>, <<>>)], FALSE)

\* The catalog and the primary keys of the runs that vary neither.
StdCatalog == <<ConfiguredStream("public", "t", <<>>), ConfiguredStream("", "u", <<>>)>>
StdPrimaryKeys == [id \in DataTables |-> <<"id">>]

\* The connector as it is deployed: tailing, with no lifespan limit and no
\* poll timeout.
Production ==
  /\ tail = TRUE
  /\ maxLifespan = 0
  /\ pollTimeout = 0

\* No separate chunk scan is looked at.
NoScan == [rows |-> {}, pkey |-> <<>>, resume |-> <<>>, limit |-> 0, result |-> <<>>, done |-> TRUE]

\* The Kinesis reader is not run.
NoRead == [pc |-> "off"]

\* The capture as RunCapture constructs it, whatever it is started with and
\* whatever the watermarks table is named.
InitTasks ==
  /\ db = db0
  /\ uuidCtr = 1
  /\ startLSN = state.CurrentLSN
  /\ startState = state
  /\ rdNext = startLSN + 1
  /\ rdStep = "row"
  /\ rdLSN = startLSN
  /\ chan = <<>>
  /\ closed = FALSE
  /\ cancelledBy = ""
  /\ elapsed = 0
  /\ idle = 0
  /\ quiet = 0
  /\ returned = ""
  /\ pc = "updateState"
  /\ watermark = 0
  /\ watermarkReached = FALSE
  /\ results = NilResults
  /\ toScan = <<>>
  /\ changes = 0
  /\ out = <<>>
  /\ cycle = 0
  /\ fences = <<>>
  /\ consumed = <<>>
  /\ setFrom = 0
  /\ scans = <<>>
  /\ resumedAt = 0
  /\ encodeFailed = FALSE
  /\ raceDeletes = {}
  /\ restarts = 0

\* The watermarks table is configured by its lower-case schema-qualified name.
InitRun == WatermarksTable = TblW /\ InitTasks

InitCapture == scan = NoScan /\ kinesis = NoRead /\ InitRun

Init ==
  /\ db0 \in InitialDbs
  /\ \/ state = FreshState /\ wal = <<>>
     \/ state = PriorState /\ wal = PriorLog
  /\ backfillChunkSize \in 1 .. MaxChunk
  /\ catalog = StdCatalog
  /\ dbPrimaryKeys = StdPrimaryKeys
  /\ writeKeys = Keys
  /\ writeWindow = "any"
  /\ encodeErrAt = 0
  /\ encodeSticky = FALSE
  /\ Production
  /\ InitCapture

Running == pc \notin {"done", "failed"}

\* --------------------------------------------------------------- database
DataWrites == Cardinality({i \in 1 .. Len(wal) : <<wal[i].Namespace, wal[i].Table>> \in DataTables})

\* The clients write now: at any time, or after the first watermark was
\* written and before the first scan is issued.
InWriteWindow == writeWindow = "any" \/ (cycle = 1 /\ scans = <<>>)

\* The row of e belongs to a stream in Backfill and its key is beyond Scanned.
NotYetFlushed(ps, e) ==
  LET streamID == joinStreamID(e.Namespace, e.Table) IN
  /\ streamID \in DOMAIN ps.Streams
  /\ ps.Streams[streamID].Mode = tableModeBackfill
  /\ compareTuples(encodeRowKey(ps.Streams[streamID].ScanKey, e.Fields),
                   ps.Streams[streamID].Scanned) > 0

\* Writes committed after the cancellation are never read by the capture: they
\* are left out.
Commit(e) ==
  /\ ~closed
  /\ wal' = Append(wal, e)
  /\ db' = ApplyEntry(db, e)
  /\ raceDeletes' = IF e.Type = "Delete" /\ cycle >= 1 /\ NotYetFlushed(state, e)
                      THEN raceDeletes \cup {e.LSN} ELSE raceDeletes
  /\ UNCHANGED <<uuidCtr, envVars, readerVars, closed, cancelledBy, elapsed, quiet, pc, state, watermark,
                 watermarkReached, results, toScan, changes, out, histVars, encodeFailed, runVars>>

DbInsert ==
  /\ Running /\ DataWrites < MaxWrites /\ InWriteWindow
  /\ \E tbl \in DataTables, k \in writeKeys :
       /\ k \in KeysOf(tbl, writeKeys)
       /\ k \notin DOMAIN db[tbl]
       /\ Commit(Event("Insert", tbl, RowFields(k, Len(wal) + 1), Len(wal) + 1))

DbUpdate ==
  /\ Running /\ DataWrites < MaxWrites /\ InWriteWindow
  /\ \E tbl \in DataTables, k \in writeKeys :
       /\ k \in KeysOf(tbl, writeKeys)
       /\ k \in DOMAIN db[tbl]
       /\ Commit(Event("Update", tbl, RowFields(k, Len(wal) + 1), Len(wal) + 1))

DbDelete ==
  /\ Running /\ DataWrites < MaxWrites /\ InWriteWindow
  /\ \E tbl \in DataTables, k \in writeKeys :
       /\ k \in KeysOf(tbl, writeKeys)
       /\ k \in DOMAIN db[tbl]
       /\ Commit(Event("Delete", tbl, RowFields(k, Len(wal) + 1), Len(wal) + 1))

\* ------------------------------------------------------ replication reader
\* Begin messages carry no row: both loops of the capture skip an event whose
\* stream is unknown, so they are left out of the channel.
CommitEvent(lsn) == Event("Commit", <<"", "">>, EmptyMap, lsn)

\* The reader decodes the row message of the next transaction onto the channel.
ReplicationRow ==
  /\ Running /\ ~closed
  /\ rdStep = "row" /\ rdNext <= Len(wal) /\ Len(chan) < ChanCap
  /\ chan' = Append(chan, wal[rdNext])
  /\ rdStep' = "commit"
  /\ UNCHANGED <<dbVars, envVars, rdNext, rdLSN, closed, cancelledBy, elapsed, quiet, pc, state, watermark,
                 watermarkReached, results, toScan, changes, out, histVars, auxVars, runVars>>

\* Mutant: the reader stores the position it has decoded in the persistent
\* state itself.
ReplicationCommit_WritesState ==
  /\ Running /\ ~closed
  /\ rdStep = "commit" /\ Len(chan) < ChanCap
  /\ rdLSN' = rdNext
  /\ state' = [state EXCEPT !.CurrentLSN = rdNext]
  /\ chan' = Append(chan, CommitEvent(rdNext))
  /\ rdNext' = rdNext + 1
  /\ rdStep' = "row"
  /\ UNCHANGED <<dbVars, envVars, closed, cancelledBy, elapsed, quiet, pc, watermark,
                 watermarkReached, results, toScan, changes, out, histVars, auxVars, runVars>>

\* The reader decodes the Commit message: it records the position and sends
\* the Commit event.
ReplicationCommit ==
  /\ Running /\ ~closed
  /\ rdStep = "commit" /\ Len(chan) < ChanCap
  /\ rdLSN' = rdNext
  /\ chan' = Append(chan, CommitEvent(rdNext))
  /\ rdNext' = rdNext + 1
  /\ rdStep' = "row"
  /\ UNCHANGED <<dbVars, envVars, closed, cancelledBy, elapsed, quiet, pc, state, watermark,
                 watermarkReached, results, toScan, changes, out, histVars, auxVars, runVars>>

\* The context is cancelled: the reader closes its session and the channel.
\* Events still buffered in the channel are received before the close is seen,
\* so a close with events buffered is taken at the point they are received.
\* MaxRestarts bounds the cancellations too: the run after the last restart is
\* left to run.
CancelBy(cause) ==
  /\ Running /\ ~closed
  /\ restarts < MaxRestarts
  /\ pc \in {"drain", "stream"} => chan = <<>>
  /\ closed' = TRUE
  /\ cancelledBy' = cause
  /\ UNCHANGED <<dbVars, envVars, readerVars, pc, state, watermark, elapsed, quiet,
                 watermarkReached, results, toScan, changes, out, histVars, auxVars,
                 runVars>>

\* The context RunCapture was given is cancelled by its caller.
Cancel ==
  /\ cancelledBy = ""
  /\ CancelBy("parent")

\* RunCapture: context.WithTimeout(ctx, duration), when MaxLifespanSeconds is set.
DeadlineExpires ==
  /\ maxLifespan # 0 /\ elapsed >= maxLifespan
  /\ CancelBy("deadline")

\* RunCapture: the watchdog is created in non-tailing mode with a poll timeout.
WatchdogArmed == ~tail /\ pollTimeout # 0

\* RunCapture: time.AfterFunc(wdtDuration, streamCancel).
WatchdogFires ==
  /\ WatchdogArmed /\ idle >= pollTimeout
  /\ CancelBy("watchdog")

\* One unit of time passes. A timer that does not exist is not counted, and a
\* timer that has run out stays at its duration until it is reset.
Tick ==
  /\ Running
  /\ maxLifespan # 0 \/ WatchdogArmed
  /\ elapsed' = IF maxLifespan # 0 /\ elapsed < maxLifespan THEN elapsed + 1 ELSE elapsed
  /\ idle' = IF WatchdogArmed /\ idle < pollTimeout THEN idle + 1 ELSE idle
  /\ quiet' = IF WatchdogArmed /\ quiet < pollTimeout THEN quiet + 1 ELSE quiet
  /\ UNCHANGED <<dbVars, envVars, readerVars, closed, cancelledBy, pc, state, watermark,
                 watermarkReached, results, toScan, changes, out, histVars, auxVars,
                 returned>>

\* ctx.Err(), and the error a database call made with the ended context
\* returns: it wraps ctx.Err().
ctxErr ==
  IF cancelledBy = "deadline" THEN "DeadlineExceeded"
  ELSE IF cancelledBy = "" THEN "nil" ELSE "Canceled"

\* RunCapture: what it returns for the error of streamChanges. err is "nil",
\* the context error it wraps, or "other".
RunCaptureReturn(err, lifespan, tailing) ==
  IF err = "nil" THEN "nil"
  ELSE IF err = "DeadlineExceeded" /\ lifespan # 0 THEN "nil"
  ELSE IF err = "Canceled" /\ ~tailing THEN "nil"
  ELSE "error"

\* streamChanges has returned err when the capture task is at pcNext.
Return(pcNext, err) ==
  returned' = IF pcNext \in {"failed", "done"}
                THEN RunCaptureReturn(err, maxLifespan, tail)
                ELSE returned

\* Mutant: emit leaves the watchdog alone.
ResetWatchdog_Never(emits) ==
  /\ idle' = idle
  /\ quiet' = IF out' # out THEN 0 ELSE quiet

\* capture.emit: the watchdog, if there is one, is reset before each Encode.
\* quiet records the time since a message was last written.
ResetWatchdog(emits) ==
  /\ idle' = IF WatchdogArmed /\ emits THEN 0 ELSE idle
  /\ quiet' = IF out' # out THEN 0 ELSE quiet

\* ------------------------------------------------------------ capture task
\* RunCapture: c.updateState(ctx)
UpdateState ==
  /\ pc = "updateState"
  /\ LET r == updateState(state, catalog, dbPrimaryKeys) IN
     IF closed \/ r.err
       THEN \* RunCapture returns the error of updateState as it is
            /\ pc' = "failed"
            /\ returned' = "error"
            /\ state' = IF closed THEN state ELSE r.state
            /\ UNCHANGED <<out, changes, encodeFailed, idle, quiet>>
       ELSE LET w == Encode(out, IF r.dirty
                                   THEN emitState(out, r.state, "updateState", cycle)
                                   ELSE out,
                            encodeErrAt, encodeFailed, encodeSticky)
            IN \* the error emitState returns is dropped: updateState returns nil
               /\ pc' = "begin"
               /\ UNCHANGED returned
               /\ state' = r.state
               /\ out' = w.out
               /\ encodeFailed' = (encodeFailed \/ w.err)
               /\ changes' = IF r.dirty THEN 0 ELSE changes
               /\ ResetWatchdog(r.dirty)
  /\ UNCHANGED <<dbVars, envVars, readerVars, closed, cancelledBy, elapsed, watermark, watermarkReached,
                 results, toScan, histVars, raceDeletes>>

\* streamChanges: the first pendingStreams() test and the dummy watermark.
Begin ==
  /\ pc = "begin"
  /\ IF pendingStreams(state) = <<>>
       THEN /\ pc' = "stream"
            /\ UNCHANGED <<dbVars, watermark, cycle, fences>>
       ELSE IF closed
         THEN /\ pc' = "failed"
              /\ UNCHANGED <<dbVars, watermark, cycle, fences>>
         ELSE /\ pc' = "drain"
              /\ wal' = Append(wal, WriteWatermark(wal, WatermarksTable, uuidCtr))
              /\ watermark' = uuidCtr
              /\ uuidCtr' = uuidCtr + 1
              /\ cycle' = cycle + 1
              /\ fences' = Append(fences, Len(wal) + 1)
              /\ db' = db
  /\ watermarkReached' = FALSE
  /\ results' = NilResults
  /\ Return(pc', ctxErr)
  /\ UNCHANGED idle
  /\ UNCHANGED <<envVars, readerVars, closed, cancelledBy, elapsed, quiet, state, toScan, changes, out,
                 consumed, setFrom, scans, startLSN, startState, resumedAt, restarts, auxVars>>

\* Mutant: any Commit ends the drain, the watermark seen or not.
StreamToWatermarkCommit_AnyCommit ==
  /\ pc = "drain" /\ chan # <<>> /\ Head(chan).Type = "Commit"
  /\ chan' = Tail(chan)
  /\ state' = [state EXCEPT !.CurrentLSN = CommitLSN(Head(chan), rdLSN)]
  /\ setFrom' = Head(chan).LSN
  /\ pc' = "flush"
  /\ UNCHANGED <<dbVars, envVars, rdNext, rdStep, rdLSN, closed, cancelledBy, elapsed, quiet, watermark,
                 watermarkReached, results, toScan, changes, out, cycle, fences,
                 consumed, scans, startLSN, startState, resumedAt, restarts, auxVars,
                 runVars>>

\* streamToWatermark: a Commit event.
StreamToWatermarkCommit ==
  /\ pc = "drain" /\ chan # <<>> /\ Head(chan).Type = "Commit"
  /\ chan' = Tail(chan)
  /\ state' = [state EXCEPT !.CurrentLSN = CommitLSN(Head(chan), rdLSN)]
  /\ setFrom' = Head(chan).LSN
  /\ pc' = IF watermarkReached THEN "flush" ELSE "drain"
  /\ UNCHANGED <<dbVars, envVars, rdNext, rdStep, rdLSN, closed, cancelledBy, elapsed, quiet, watermark,
                 watermarkReached, results, toScan, changes, out, cycle, fences, consumed,
                 scans, startLSN, startState, resumedAt, restarts, auxVars, runVars>>

\* streamToWatermark: a row event.
StreamToWatermarkRow ==
  /\ pc = "drain" /\ chan # <<>> /\ Head(chan).Type # "Commit"
  /\ LET evt == Head(chan)
         r == DrainRow(evt, state, results, out, cycle)
         w == Encode(out, r.out, encodeErrAt, encodeFailed, encodeSticky)
     IN /\ chan' = Tail(chan)
        /\ watermarkReached' = (watermarkReached \/ IsWatermark(evt, WatermarksTable, watermark))
        /\ out' = w.out
        /\ encodeFailed' = (encodeFailed \/ w.err)
        /\ results' = r.results
        /\ changes' = changes + r.emitted
        /\ pc' = IF r.err \/ w.err THEN "failed" ELSE "drain"
        /\ Return(pc', "other")
        /\ ResetWatchdog(r.out # out)
        /\ consumed' = Append(consumed, [LSN |-> evt.LSN, Drain |-> cycle])
  /\ UNCHANGED <<dbVars, envVars, rdNext, rdStep, rdLSN, closed, cancelledBy, elapsed, state, watermark,
                 toScan, cycle, fences, setFrom, scans, startLSN, startState, resumedAt, restarts, raceDeletes>>

\* streamToWatermark: the channel is closed and empty, the range loop ends
\* and the function returns nil.
StreamToWatermarkClosed ==
  /\ pc = "drain" /\ chan = <<>> /\ closed
  /\ pc' = "flush"
  /\ UNCHANGED <<dbVars, envVars, readerVars, closed, cancelledBy, elapsed, quiet, state, watermark,
                 watermarkReached, results, toScan, changes, out, histVars, auxVars,
                 runVars>>

\* emitBuffered(results), then the pendingStreams() passed to backfillStreams.
EmitBuffered ==
  /\ pc = "flush"
  /\ LET r == emitBuffered(results, state, out, cycle)
         w == Encode(out, r.out, encodeErrAt, encodeFailed, encodeSticky)
     IN /\ out' = w.out
        /\ encodeFailed' = (encodeFailed \/ w.err)
        /\ state' = IF w.err THEN [state EXCEPT !.Streams = FlushedBefore(results, state, Len(w.out) - Len(out), cycle)]
                             ELSE r.state
        /\ toScan' = IF w.err THEN <<>> ELSE pendingStreams(r.state)
        /\ pc' = IF w.err THEN "failed" ELSE "scan"
        /\ Return(pc', "other")
        /\ ResetWatchdog(r.out # out)
  /\ changes' = 0
  /\ results' = newResultSet
  /\ UNCHANGED <<dbVars, envVars, readerVars, closed, cancelledBy, elapsed, watermark, watermarkReached,
                 histVars, raceDeletes>>

\* backfillStreams: scanTable of the next pending stream and results.Buffer.
BackfillStream ==
  /\ pc = "scan" /\ toScan # <<>>
  /\ IF closed
       THEN /\ pc' = "failed"
            /\ UNCHANGED <<results, toScan, scans>>
       ELSE LET streamID == Head(toScan)
                streamState == state.Streams[streamID]
                evts == ScanTableChunk(db[streamID], streamID, streamState.Scanned,
                                       backfillChunkSize)
            IN /\ results' = Buffer(results, streamID, streamState.ScanKey, evts,
                                    backfillChunkSize)
               /\ toScan' = Tail(toScan)
               /\ scans' = Append(scans, [Stream |-> streamID,
                                          Resume |-> streamState.Scanned,
                                          Rows |-> Len(evts),
                                          Complete |-> Len(evts) < backfillChunkSize,
                                          Cycle |-> cycle])
               /\ pc' = "scan"
  /\ Return(pc', ctxErr)
  /\ UNCHANGED idle
  /\ UNCHANGED <<dbVars, envVars, readerVars, closed, cancelledBy, elapsed, quiet, state, watermark,
                 watermarkReached, changes, out, cycle, fences, consumed, setFrom, startLSN, startState, resumedAt, restarts, auxVars>>

\* Mutant: the chunks just scanned are flushed at once, with no watermark
\* written and no drain before the flush.
WriteNextWatermark_FlushAtOnce ==
  /\ pc = "scan" /\ toScan = <<>>
  /\ pc' = IF pendingStreams(state) = <<>> THEN "stream" ELSE "flush"
  /\ UNCHANGED <<dbVars, envVars, readerVars, closed, cancelledBy, elapsed, quiet, state,
                 watermark, watermarkReached, results, toScan, changes, out, histVars,
                 auxVars, runVars>>

\* streamChanges: backfillStreams has returned; the next watermark is written
\* and the loop condition tested.
WriteNextWatermark ==
  /\ pc = "scan" /\ toScan = <<>>
  /\ IF closed
       THEN /\ pc' = "failed"
            /\ UNCHANGED <<dbVars, watermark, cycle, fences>>
       ELSE /\ wal' = Append(wal, WriteWatermark(wal, WatermarksTable, uuidCtr))
            /\ watermark' = uuidCtr
            /\ uuidCtr' = uuidCtr + 1
            /\ cycle' = cycle + 1
            /\ fences' = Append(fences, Len(wal) + 1)
            /\ db' = db
            /\ pc' = IF pendingStreams(state) = <<>> THEN "stream" ELSE "drain"
  /\ watermarkReached' = FALSE
  /\ Return(pc', ctxErr)
  /\ UNCHANGED idle
  /\ UNCHANGED <<envVars, readerVars, closed, cancelledBy, elapsed, quiet, state, results, toScan, changes, out,
                 consumed, setFrom, scans, startLSN, startState, resumedAt, restarts, auxVars>>

\* streamChanges, streaming loop: a Commit event.
StreamCommit ==
  /\ pc = "stream" /\ chan # <<>> /\ Head(chan).Type = "Commit"
  /\ chan' = Tail(chan)
  /\ IF changes > 0
       THEN LET ps == [state EXCEPT !.CurrentLSN = CommitLSN(Head(chan), rdLSN)]
                w == Encode(out, emitState(out, ps, "streamChanges", cycle),
                            encodeErrAt, encodeFailed, encodeSticky)
            IN /\ state' = ps
               /\ out' = w.out
               /\ encodeFailed' = (encodeFailed \/ w.err)
               /\ pc' = IF w.err THEN "failed" ELSE pc
               /\ changes' = 0
               /\ setFrom' = Head(chan).LSN
       ELSE UNCHANGED <<state, out, changes, setFrom, encodeFailed, pc>>
  /\ Return(pc', "other")
  /\ ResetWatchdog(changes > 0)
  /\ UNCHANGED <<dbVars, envVars, rdNext, rdStep, rdLSN, closed, cancelledBy, elapsed, watermark,
                 watermarkReached, results, toScan, cycle, fences, consumed, scans, startLSN, startState, resumedAt, restarts, raceDeletes>>

\* streamChanges, streaming loop: every row event is handled.
IsActiveStream_Always(ps, streamID) == TRUE

\* streamChanges, streaming loop: tableState != nil && tableState.Mode ==
\* tableModeActive.
IsActiveStream(ps, streamID) ==
  streamID \in DOMAIN ps.Streams /\ ps.Streams[streamID].Mode = tableModeActive

\* streamChanges, streaming loop: a row event.
StreamRow ==
  /\ pc = "stream" /\ chan # <<>> /\ Head(chan).Type # "Commit"
  /\ LET evt == Head(chan)
         streamID == joinStreamID(evt.Namespace, evt.Table)
         active == IsActiveStream(state, streamID)
         w == Encode(out, IF active THEN handleChangeEvent(out, evt, "streamChanges", cycle)
                                    ELSE out,
                     encodeErrAt, encodeFailed, encodeSticky)
     IN /\ chan' = Tail(chan)
        /\ out' = w.out
        /\ encodeFailed' = (encodeFailed \/ w.err)
        /\ pc' = IF w.err THEN "failed" ELSE pc
        /\ Return(pc', "other")
        /\ ResetWatchdog(active)
        /\ changes' = IF active THEN changes + 1 ELSE changes
        /\ consumed' = Append(consumed, [LSN |-> evt.LSN, Drain |-> 0])
  /\ UNCHANGED <<dbVars, envVars, rdNext, rdStep, rdLSN, closed, cancelledBy, elapsed, state, watermark,
                 watermarkReached, results, toScan, cycle, fences, setFrom, scans, startLSN, startState, resumedAt, restarts, raceDeletes>>

\* streamChanges, streaming loop: the channel is closed and empty.
StreamClosed ==
  /\ pc = "stream" /\ chan = <<>> /\ closed
  /\ pc' = "done"
  /\ Return(pc', "nil")
  /\ UNCHANGED <<dbVars, envVars, readerVars, closed, cancelledBy, elapsed, quiet, state, watermark,
                 watermarkReached, results, toScan, changes, out, histVars, auxVars,
                 idle>>

Capture ==
  \/ UpdateState
  \/ Begin
  \/ StreamToWatermarkCommit
  \/ StreamToWatermarkRow
  \/ StreamToWatermarkClosed
  \/ EmitBuffered
  \/ BackfillStream
  \/ WriteNextWatermark
  \/ StreamCommit
  \/ StreamRow
  \/ StreamClosed

\* Reading the output.
IsRecord(m) == m.Type = "RECORD"
IsState(m) == m.Type = "STATE"
MsgStream(m) == joinStreamID(m.Namespace, m.Stream)
IsRecordOf(m, tbl, k) == IsRecord(m) /\ MsgStream(m) = tbl /\ m.Data.id = k
StateIdx(o) == {i \in 1 .. Len(o) : IsState(o[i])}
ModeIn(ps, tbl) == IF tbl \in DOMAIN ps.Streams THEN ps.Streams[tbl].Mode ELSE "none"

\* The index of the last State message of the output.
LastState(o) == CHOOSE i \in StateIdx(o) : \A j \in StateIdx(o) : j <= i

\* The process has ended and the capture is started again with the last State
\* message it wrote (RunCapture: the state argument); output after that State
\* was never committed downstream and is dropped.
Restart ==
  /\ restarts < MaxRestarts
  /\ pc = "failed"
  /\ StateIdx(out) # {}
  /\ LET i == LastState(out)
         ps == out[i].Data
     IN /\ out' = SubSeq(out, 1, i)
        /\ state' = ps
        /\ startLSN' = ps.CurrentLSN
        /\ startState' = ps
        /\ rdNext' = ps.CurrentLSN + 1
        /\ rdLSN' = ps.CurrentLSN
  /\ rdStep' = "row"
  /\ chan' = <<>>
  /\ closed' = FALSE
  /\ pc' = "updateState"
  /\ watermark' = 0
  /\ watermarkReached' = FALSE
  /\ results' = NilResults
  /\ toScan' = <<>>
  /\ changes' = 0
  /\ cycle' = 0
  /\ fences' = <<>>
  /\ consumed' = <<>>
  /\ setFrom' = 0
  /\ scans' = <<>>
  /\ resumedAt' = LastState(out)
  /\ restarts' = restarts + 1
  /\ cancelledBy' = ""
  /\ elapsed' = 0
  /\ idle' = 0
  /\ quiet' = 0
  /\ returned' = ""
  /\ UNCHANGED <<dbVars, envVars, auxVars>>

Next ==
  \/ DbInsert
  \/ DbUpdate
  \/ DbDelete
  \/ ReplicationRow
  \/ ReplicationCommit
  \/ Cancel
  \/ Capture

Spec == Init /\ [][Next]_vars

NextRestart ==
  \/ Next
  \/ Restart

\* A restarted run is itself a run resumed from a prior state, so the runs with
\* restarts begin from a first start.
InitRestart == Init /\ state = FreshState

\* A first run over a single table of four rows, scanned two at a time, whose
\* clients write the second row and a fifth between the first watermark and the
\* first scan.
RaceRows == {1, 2, 3, 4}
RaceWriteKeys == {2, 5}
InitRace ==
  /\ db0 = [tbl \in DataTables |-> IF tbl = TblT THEN InitialRows(RaceRows) ELSE InitialRows({})]
  /\ state = FreshState /\ wal = <<>>
  /\ backfillChunkSize = 2
  /\ catalog = <<ConfiguredStream("public", "t", <<>>)>>
  /\ dbPrimaryKeys = StdPrimaryKeys
  /\ writeKeys = RaceWriteKeys
  /\ writeWindow = "firstScan"
  /\ encodeErrAt = 0
  /\ encodeSticky = FALSE
  /\ Production
  /\ InitCapture

SpecRace == InitRace /\ [][Next]_vars

\* First runs, over an empty table and a table of one row, whose encoder fails
\* at one message, and from then on always or never again (which of the two
\* shows only when the capture goes on after the failure, as it does after
\* that of the first message).
InitEncoder ==
  /\ db0 = [tbl \in DataTables |-> IF tbl = TblT THEN InitialRows({}) ELSE InitialRows({1})]
  /\ state = FreshState /\ wal = <<>>
  /\ backfillChunkSize \in 1 .. MaxChunk
  /\ catalog = StdCatalog
  /\ dbPrimaryKeys = StdPrimaryKeys
  /\ writeKeys = Keys
  /\ writeWindow = "any"
  /\ encodeErrAt \in 1 .. MaxEncodeErr
  /\ encodeSticky \in IF encodeErrAt = 1 THEN BOOLEAN ELSE {FALSE}
  /\ Production
  /\ InitCapture

SpecEncoder == InitEncoder /\ [][Next]_vars

\* First runs of one table of one row that differ in how they are told to stop:
\* tailing or not, with or without a lifespan limit and a poll timeout. Time
\* passes, the timers fire and the caller cancels at any point of the run.
InitShutdown ==
  /\ db0 = [tbl \in DataTables |-> IF tbl = TblT THEN InitialRows({1}) ELSE InitialRows({})]
  /\ state = FreshState /\ wal = <<>>
  /\ backfillChunkSize = 1
  /\ catalog = <<ConfiguredStream("public", "t", <<>>)>>
  /\ dbPrimaryKeys = StdPrimaryKeys
  /\ writeKeys = {1}
  /\ writeWindow = "any"
  /\ encodeErrAt = 0
  /\ encodeSticky = FALSE
  /\ tail \in BOOLEAN
  /\ maxLifespan \in {0, MaxTicks}
  /\ pollTimeout \in {0, MaxTicks}
  /\ InitCapture

NextShutdown ==
  \/ Next
  \/ Tick
  \/ DeadlineExpires
  \/ WatchdogFires

SpecShutdown == InitShutdown /\ [][NextShutdown]_vars

\* The same runs, scheduled: a timer that has run out fires (the Go runtime
\* runs the function of an expired time.AfterFunc timer), and the capture task,
\* which is one goroutine, takes its next step when it can.
\* The table is written between the first watermark and the first scan.
InitWatchdog ==
  /\ db0 = [tbl \in DataTables |-> IF tbl = TblT THEN InitialRows({1}) ELSE InitialRows({})]
  /\ state = FreshState /\ wal = <<>>
  /\ backfillChunkSize = 1
  /\ catalog = <<ConfiguredStream("public", "t", <<>>)>>
  /\ dbPrimaryKeys = StdPrimaryKeys
  /\ writeKeys = {1}
  /\ writeWindow = "firstScan"
  /\ encodeErrAt = 0
  /\ encodeSticky = FALSE
  /\ \E cfg \in {<<FALSE, MaxTicks, 0>>, <<FALSE, MaxTicks, MaxTicks>>,
                 <<TRUE, MaxTicks, 0>>, <<FALSE, 0, MaxTicks>>} :
       /\ tail = cfg[1]
       /\ pollTimeout = cfg[2]
       /\ maxLifespan = cfg[3]
  /\ InitCapture

SpecWatchdog ==
  /\ InitWatchdog
  /\ [][NextShutdown]_vars
  /\ WF_vars(WatchdogFires)
  /\ WF_vars(Capture)

\* First runs of one table of one row, backfilled one row at a time while the
\* table is written, with the tasks scheduled: the capture task and the reader
\* task are goroutines that run whenever they can, and the channel between
\* them blocks neither for ever. The writes stop after MaxWrites.
InitPhase1 ==
  /\ db0 = [tbl \in DataTables |-> IF tbl = TblT THEN InitialRows({1}) ELSE InitialRows({})]
  /\ state = FreshState /\ wal = <<>>
  /\ backfillChunkSize = 1
  /\ catalog = <<ConfiguredStream("public", "t", <<>>)>>
  /\ dbPrimaryKeys = StdPrimaryKeys
  /\ writeKeys = Keys
  /\ writeWindow = "any"
  /\ encodeErrAt = 0
  /\ encodeSticky = FALSE
  /\ Production
  /\ InitCapture

SpecPhase1 ==
  /\ InitPhase1
  /\ [][Next]_vars
  /\ WF_vars(Capture)
  /\ WF_vars(ReplicationRow)
  /\ WF_vars(ReplicationCommit)

\* A run resumed from a state in which a stream is in Ignore mode: the table
\* the clients write is ignored, the other one is new and is backfilled.
InitIgnore ==
  /\ db0 = [tbl \in DataTables |-> InitialRows({1})]
  /\ state = PersistentState(0, [id \in {TblT} |-> TableState(tableModeIgnore, <<"id">>, <<>>)], FALSE)
  /\ wal = <<>>
  /\ backfillChunkSize \in 1 .. MaxChunk
  /\ catalog = StdCatalog
  /\ dbPrimaryKeys = StdPrimaryKeys
  /\ writeKeys = Keys
  /\ writeWindow = "any"
  /\ encodeErrAt = 0
  /\ encodeSticky = FALSE
  /\ Production
  /\ InitCapture

SpecIgnore == InitIgnore /\ [][Next]_vars

\* First runs with the watermarks table configured by its lower-case
\* schema-qualified name, without a schema, and in mixed case: PostgreSQL
\* resolves all of them to the same table. A name is held as <<schema, table>>,
\* the schema empty when the name has none.
WatermarkNames ==
  {TblW, <<"", "watermarks">>, <<"public", "Watermarks">>, <<"Public", "watermarks">>}

InitNames ==
  /\ db0 = [tbl \in DataTables |-> InitialRows({1})]
  /\ state = FreshState /\ wal = <<>>
  /\ backfillChunkSize \in 1 .. MaxChunk
  /\ catalog = StdCatalog
  /\ dbPrimaryKeys = StdPrimaryKeys
  /\ writeKeys = Keys
  /\ writeWindow = "any"
  /\ encodeErrAt = 0
  /\ encodeSticky = FALSE
  /\ Production
  /\ scan = NoScan
  /\ kinesis = NoRead
  /\ WatermarksTable \in WatermarkNames
  /\ InitTasks

SpecNames == InitNames /\ [][Next]_vars

\* One chunk scan of a table keyed by two columns, for every table over the
\* keys, every resume key (that of a row since deleted included) and every
\* chunk size; the capture around it is not run.
CompositeKeys == {<<a, b>> : a \in Keys, b \in Keys}

InitScan ==
  /\ db0 = [tbl \in DataTables |-> InitialRows({})]
  /\ state = FreshState /\ wal = <<>>
  /\ backfillChunkSize \in 1 .. MaxChunk
  /\ catalog = StdCatalog
  /\ dbPrimaryKeys = StdPrimaryKeys
  /\ writeKeys = {}
  /\ writeWindow = "any"
  /\ encodeErrAt = 0
  /\ encodeSticky = FALSE
  /\ Production
  /\ InitRun
  /\ kinesis = NoRead
  /\ \E S \in SUBSET CompositeKeys, R \in CompositeKeys \cup {<<>>} :
       scan = [rows |-> S, pkey |-> <<1, 2>>, resume |-> R, limit |-> backfillChunkSize,
               result |-> <<>>, done |-> FALSE]

\* ScanTableChunk is called once.
ScanChunk ==
  /\ ~scan.done
  /\ scan' = [scan EXCEPT !.result = ScanTableChunk2(scan.rows, scan.pkey, scan.resume,
                                                     scan.limit),
                          !.done = TRUE]
  /\ UNCHANGED <<db0, backfillChunkSize, catalog, dbPrimaryKeys, WatermarksTable,
                 writeKeys, writeWindow, encodeErrAt, encodeSticky, tail, maxLifespan,
                 pollTimeout, dbVars, readerVars, closed, cancelledBy, elapsed, quiet, pc,
                 state, watermark, watermarkReached, results, toScan, changes, out,
                 histVars, auxVars, runVars, kinesis>>

SpecScan == InitScan /\ [][ScanChunk]_vars

\* ------------------------------------------------------------ Kinesis reader
\* make(chan readResult, 8)
DataChCap == 8
\* The read results the shard readers send at most, one more in all than the
\* channel holds, and the records of a result.
MaxSends == 4
MaxRecords == 2

\* catalog.Streams, by name, and the shards of each stream.
KinesisStreams == <<"s1", "s2">>
KinesisSource(stream, shardID) == [stream |-> stream, shardID |-> shardID]
Sources == {KinesisSource("s1", "a"), KinesisSource("s1", "b"), KinesisSource("s2", "a")}
\* The shard reader whose reads may fail.
FailingSources == {KinesisSource("s1", "b")}
MaxSendsOf(src) ==
  IF src = KinesisSource("s1", "a") THEN MaxSends
  ELSE IF src = KinesisSource("s1", "b") THEN MaxSends - 1 ELSE MaxSends - 2

\* An entry of State.Data: the map of a stream from shard ids to sequence
\* numbers, or (isMap false) a value of another type.
StreamMap(isMap, shards) == [isMap |-> isMap, shards |-> shards]


\* Mutant: the state keeps the position of the shard just read and of no other.
put_OnlyLatest(data, source, sequenceNumber) ==
  [st \in {source.stream} |-> StreamMap(TRUE, [sh \in {source.shardID} |-> sequenceNumber])]

\* put: state.Data[source.stream][source.shardID] = sequenceNumber.
put(data, source, sequenceNumber) ==
  LET streamMap == IF source.stream \in DOMAIN data THEN data[source.stream].shards
                                                     ELSE EmptyMap
  IN Put(data, source.stream,
         StreamMap(TRUE, Put(streamMap, source.shardID, sequenceNumber)))

\* copyStreamState: [err, dest], dest a copy of the stream's map.
copyStreamState(data, stream) ==
  IF stream \notin DOMAIN data THEN [err |-> FALSE, dest |-> EmptyMap]
  ELSE IF ~data[stream].isMap THEN [err |-> TRUE, dest |-> EmptyMap]
  ELSE [err |-> FALSE, dest |-> [sh \in DOMAIN data[stream].shards |-> data[stream].shards[sh]]]

readResult(source, records, sequenceNumber, error) ==
  [Source |-> source, Records |-> records, SequenceNumber |-> sequenceNumber, Error |-> error]

\* doRead after parsing its arguments: stateMessage.State.Data is the state
\* file, no reader is started. failAt is the call of the stdout encoder that
\* returns an error (0: none).
KinesisStart(file, failAt) ==
  [pc |-> "start", file |-> file, data |-> file, copies |-> EmptyMap, started |-> {},
   dataCh |-> <<>>, sent |-> [src \in Sources |-> 0], stopped |-> {}, cancelled |-> FALSE,
   next |-> readResult(KinesisSource("", ""), <<>>, 0, ""), written |-> 0, stdout |-> <<>>, handled |-> <<>>, returned |-> "",
   failAt |-> failAt]

\* The call at which the encoder of the second read below fails.
KinesisFailAt == 3

\* The reads: one resumed from a state file that holds the position of a shard
\* that is read and of a shard of a stream that is not in the catalog, with an
\* encoder that works; a first read whose encoder fails; and one whose state
\* file has an entry that is not a map.

InitKinesis ==
  /\ db0 = [tbl \in DataTables |-> InitialRows({})]
  /\ state = FreshState /\ wal = <<>>
  /\ backfillChunkSize = 1
  /\ catalog = StdCatalog
  /\ dbPrimaryKeys = StdPrimaryKeys
  /\ writeKeys = {}
  /\ writeWindow = "any"
  /\ encodeErrAt = 0
  /\ encodeSticky = FALSE
  /\ Production
  /\ scan = NoScan
  /\ InitRun
  /\ kinesis \in
       { KinesisStart([st \in {"s1", "s3"} |->
                         IF st = "s1" THEN StreamMap(TRUE, [sh \in {"a"} |-> 5])
                                      ELSE StreamMap(TRUE, [sh \in {"z"} |-> 7])], 0),
         KinesisStart(EmptyMap, KinesisFailAt),
         KinesisStart([st \in {"s2"} |-> StreamMap(FALSE, EmptyMap)], 0) }

captureVars ==
  <<db0, backfillChunkSize, catalog, dbPrimaryKeys, WatermarksTable, writeKeys, writeWindow,
    encodeErrAt, encodeSticky, tail, maxLifespan, pollTimeout, scan, dbVars, readerVars,
    closed, cancelledBy, elapsed, quiet, pc, state, watermark, watermarkReached, results,
    toScan, changes, out, histVars, auxVars, runVars>>

\* doRead: the loop over the catalog streams, copyStreamState and
\* `go readStream` for each; the first invalid entry cancels the readers
\* started so far and ends doRead.
DoReadStart ==
  /\ kinesis.pc = "start"
  /\ LET n == Len(KinesisStreams)
         bad == {i \in 1 .. n : copyStreamState(kinesis.data, KinesisStreams[i]).err}
         stop == IF bad = {} THEN n + 1 ELSE CHOOSE i \in bad : \A j \in bad : i <= j
         started == {KinesisStreams[i] : i \in 1 .. stop - 1}
     IN kinesis' = [kinesis EXCEPT
                      !.started = started,
                      !.copies = [st \in started |-> copyStreamState(kinesis.data, st).dest],
                      !.cancelled = (bad # {}),
                      !.returned = IF bad # {} THEN "invalid state" ELSE "",
                      !.pc = IF bad # {} THEN "returned" ELSE "recv"]
  /\ UNCHANGED captureVars

\* The sequence number of the result a shard reader sends: beyond the one it
\* was started with, and told apart from those of the other shards.
SequenceNumberOf(src, k) ==
  LET dest == kinesis.copies[src.stream]
      base == IF src = KinesisSource("s1", "a") THEN 10
              ELSE IF src = KinesisSource("s1", "b") THEN 20 ELSE 30
  IN base + (IF src.shardID \in DOMAIN dest THEN dest[src.shardID] ELSE 0) + k

\* The number of records of the k-th result of a shard reader: none, one or
\* MaxRecords, differing from one result to the next and between the shards.
RecordCount(src, k) ==
  (k + (IF src.shardID = "a" THEN 1 ELSE 0) + (IF src.stream = "s1" THEN 0 ELSE 1)) % (MaxRecords + 1)

\* A shard reader sends a read result on the channel: records and the
\* sequence number of the last of them, or an error, after which it stops.
ReaderSend(src, failed) ==
  /\ src.stream \in kinesis.started /\ src \notin kinesis.stopped
  /\ failed => src \in FailingSources
  /\ ~kinesis.cancelled
  /\ kinesis.sent[src] < MaxSendsOf(src)
  /\ Len(kinesis.dataCh) < DataChCap
  /\ LET seq == SequenceNumberOf(src, kinesis.sent[src] + 1)
         n == RecordCount(src, kinesis.sent[src] + 1)
         result == IF failed THEN readResult(src, <<>>, 0, "error")
                   ELSE readResult(src, [i \in 1 .. n |-> [source |-> src, seq |-> seq, i |-> i]],
                                   seq, "")
     IN kinesis' = [kinesis EXCEPT !.dataCh = Append(@, result),
                                   !.sent[src] = @ + 1,
                                   !.stopped = IF failed THEN @ \cup {src} ELSE @]
  /\ UNCHANGED captureVars

\* encoder.Encode returns an error at this call.
KinesisEncodeFails == kinesis.failAt = Len(kinesis.stdout) + 1

\* doRead: `next = <-dataCh`; a result with an error is logged (the error of
\* that Encode is ignored), the readers are cancelled and the error returned.
Receive ==
  /\ kinesis.pc = "recv" /\ kinesis.dataCh # <<>>
  /\ LET next == Head(kinesis.dataCh)
         received == [kinesis EXCEPT !.dataCh = Tail(@), !.next = next, !.written = 0,
                                     !.handled = Append(@, next)]
     IN IF next.Error # ""
          THEN kinesis' = [received EXCEPT
                             !.stdout = IF KinesisEncodeFails THEN @
                                        ELSE Append(@, [Type |-> "LOG", Stream |-> "", Data |-> next.Error]),
                             !.cancelled = TRUE,
                             !.returned = next.Error,
                             !.pc = "returned"]
          ELSE kinesis' = [received EXCEPT !.pc = "records"]
  /\ UNCHANGED captureVars

\* doRead: one record of the result is encoded.
EncodeRecord ==
  /\ kinesis.pc = "records" /\ kinesis.written < Len(kinesis.next.Records)
  /\ IF KinesisEncodeFails
       THEN kinesis' = [kinesis EXCEPT !.cancelled = TRUE, !.returned = "encode", !.pc = "returned"]
       ELSE kinesis' = [kinesis EXCEPT
                          !.stdout = Append(@, [Type |-> "RECORD", Stream |-> kinesis.next.Source.stream,
                                                Data |-> kinesis.next.Records[kinesis.written + 1]]),
                          !.written = @ + 1]
  /\ UNCHANGED captureVars

\* doRead: put(stateMessage.State, next.Source, next.SequenceNumber) and the
\* state message is encoded.
EncodeState ==
  /\ kinesis.pc = "records" /\ kinesis.written = Len(kinesis.next.Records)
  /\ LET data == put(kinesis.data, kinesis.next.Source, kinesis.next.SequenceNumber)
     IN IF KinesisEncodeFails
          THEN kinesis' = [kinesis EXCEPT !.data = data, !.cancelled = TRUE,
                                          !.returned = "encode", !.pc = "returned"]
          ELSE kinesis' = [kinesis EXCEPT
                             !.data = data,
                             !.stdout = Append(@, [Type |-> "STATE", Stream |-> "", Data |-> data]),
                             !.pc = "recv"]
  /\ UNCHANGED captureVars

NextKinesis ==
  \/ DoReadStart
  \/ \E src \in Sources, failed \in BOOLEAN : ReaderSend(src, failed)
  \/ Receive
  \/ EncodeRecord
  \/ EncodeState

SpecKinesis == InitKinesis /\ [][NextKinesis]_vars

\* Runs that differ in the catalog, in the primary keys the database reports
\* and in the state they resume from. The logs of the earlier runs: one that
\* wrote TblOld twice and checkpointed after the first write, and one that
\* wrote a watermark.
PriorLogOld == PriorLog \o <<Event("Update", TblOld, RowFields(1, 2), 2)>>
PriorLogFenced == <<Event("Insert", TblW, [slot |-> SlotName, watermark |-> 0], 1)>>
\* TblT scanned up to key 1 by its primary key.
PriorStateScanning ==
  PersistentState(1, [id \in {TblT} |-> TableState(tableModeBackfill, <<"id">>, EncodeInt(1))],
                  FALSE)
\* The watermarks table, listed in the catalog of the earlier run, captured to
\* the end.
PriorStateWatermarks ==
  PersistentState(1, [id \in {TblW} |-> TableState(tableModeActive, <<"slot">>, <<>>)], FALSE)
KeysWith(tKey) ==
  [id \in {TblT, TblU, TblW} |->
     IF id = TblT THEN tKey ELSE IF id = TblW THEN <<"slot">> ELSE <<"id">>]
CatalogRun(cat, dbpk, ps, w) == [catalog |-> cat, dbPrimaryKeys |-> dbpk, state |-> ps, wal |-> w]
CatalogRuns ==
  { \* a stream left the catalog, two are new and named in another case
    CatalogRun(<<ConfiguredStream("Public", "T", <<>>), ConfiguredStream("", "U", <<>>)>>,
               KeysWith(<<"id">>), PriorState, PriorLogOld),
    \* the catalog key overrides the database's
    CatalogRun(<<ConfiguredStream("public", "t", << <<"id">> >>)>>,
               KeysWith(<<"v">>), FreshState, <<>>),
    \* the catalog key alone
    CatalogRun(<<ConfiguredStream("public", "t", << <<"id">> >>)>>,
               KeysWith(<<>>), FreshState, <<>>),
    \* a known stream resumes and a new one is added
    CatalogRun(<<ConfiguredStream("public", "t", <<>>), ConfiguredStream("public", "u", <<>>)>>,
               KeysWith(<<"id">>), PriorStateScanning, PriorLogFenced),
    \* the catalog lists the watermarks table
    CatalogRun(<<ConfiguredStream("public", "t", <<>>), ConfiguredStream("public", "watermarks", <<>>)>>,
               KeysWith(<<"id">>), PriorStateWatermarks, PriorLogFenced),
    \* the catalog key conflicts with the scan key of a known stream
    CatalogRun(<<ConfiguredStream("public", "u", <<>>), ConfiguredStream("public", "t", << <<"v">> >>)>>,
               KeysWith(<<"id">>), PriorStateScanning, PriorLogFenced),
    \* the database's key conflicts with the scan key of a known stream
    CatalogRun(<<ConfiguredStream("public", "t", <<>>)>>,
               KeysWith(<<"v">>), PriorStateScanning, PriorLogFenced),
    \* neither the catalog nor the database has a key
    CatalogRun(<<ConfiguredStream("public", "u", <<>>), ConfiguredStream("public", "t", <<>>)>>,
               KeysWith(<<>>), FreshState, <<>>),
    \* a key element that is not a single column
    CatalogRun(<<ConfiguredStream("public", "t", << <<"id", "v">> >>)>>,
               KeysWith(<<"id">>), FreshState, <<>>) }

InitCatalog ==
  /\ db0 = [tbl \in DataTables |-> IF tbl = TblT THEN InitialRows(Keys) ELSE InitialRows({1})]
  /\ \E run \in CatalogRuns :
       /\ catalog = run.catalog
       /\ dbPrimaryKeys = run.dbPrimaryKeys
       /\ state = run.state
       /\ wal = run.wal
  /\ backfillChunkSize \in 1 .. MaxChunk
  /\ writeKeys = Keys
  /\ writeWindow = "any"
  /\ encodeErrAt = 0
  /\ encodeSticky = FALSE
  /\ Production
  /\ InitCapture

SpecCatalog == InitCatalog /\ [][Next]_vars

\* The ways a run can start, one at a time: resumed with a state that matches
\* the catalog (with a stream still in Backfill, and with all streams Active),
\* started with no streams map and an empty catalog, resumed with a stream
\* that left the catalog, with a stream that is new, and with a new stream
\* listed before one whose key conflicts.
PriorStateActive(ids) ==
  PersistentState(1, [id \in ids |-> TableState(tableModeActive, <<"id">>, <<>>)], FALSE)
StartupRuns ==
  { CatalogRun(<<ConfiguredStream("public", "t", <<>>)>>,
               KeysWith(<<"id">>), PriorStateScanning, PriorLogFenced),
    CatalogRun(StdCatalog, KeysWith(<<"id">>), PriorStateActive(DataTables), PriorLogFenced),
    CatalogRun(<<>>, KeysWith(<<"id">>), FreshState, <<>>),
    CatalogRun(<<ConfiguredStream("public", "t", <<>>)>>,
               KeysWith(<<"id">>), PriorStateActive({TblT, TblOld}), PriorLogFenced),
    CatalogRun(<<ConfiguredStream("public", "t", <<>>), ConfiguredStream("public", "u", <<>>)>>,
               KeysWith(<<"id">>), PriorStateScanning, PriorLogFenced),
    CatalogRun(<<ConfiguredStream("public", "u", <<>>), ConfiguredStream("public", "t", << <<"v">> >>)>>,
               KeysWith(<<"id">>), PriorStateScanning, PriorLogFenced) }

InitStartup ==
  /\ db0 = [tbl \in DataTables |-> IF tbl = TblT THEN InitialRows(Keys) ELSE InitialRows({1})]
  /\ \E run \in StartupRuns :
       /\ catalog = run.catalog
       /\ dbPrimaryKeys = run.dbPrimaryKeys
       /\ state = run.state
       /\ wal = run.wal
  /\ backfillChunkSize = 1
  /\ writeKeys = Keys
  /\ writeWindow = "any"
  /\ encodeErrAt = 0
  /\ encodeSticky = FALSE
  /\ Production
  /\ InitCapture

SpecStartup == InitStartup /\ [][Next]_vars

SpecRestart == InitRestart /\ [][NextRestart]_vars

\* ===================================================================
\* Properties
\* ===================================================================

\* C8: whenever the capture task stores current_log_position while handling a
\* Commit event, the stored value is the position of that Commit event itself
\* (so no checkpoint carries a position beyond the last event consumed).
C8_StoresPositionOfCommit == setFrom # 0 => state.CurrentLSN = setFrom

\* C9: if the event channel is closed while a drain has not yet observed its
\* watermark, the capture task returns without flushing the buffered chunk,
\* changing a TableState or emitting a State message: from the point where the
\* drain loop ended unfenced, the output and the state stay as they are.
C9_NoFlushAfterClose ==
  [][(pc = "flush" /\ ~watermarkReached) => (out' = out /\ state' = state)]_vars

\* C7: across the State messages written to the output, current_log_position
\* is non-decreasing, starting from the position of the resumed state and
\* including the State messages of the streaming phase.
C7_LogPositionMonotone ==
  /\ \A i \in StateIdx(out) : startLSN <= out[i].Data.CurrentLSN
  /\ \A i, j \in StateIdx(out) : i < j => out[i].Data.CurrentLSN <= out[j].Data.CurrentLSN

\* C7 witness: a resumed run whose startup State, a flush State and a
\* streaming-phase State carry strictly increasing positions.
C7_Witness ==
  \E i, j, k \in StateIdx(out) :
    /\ i < j /\ j < k
    /\ out[i].Site = "updateState" /\ out[i].Data.CurrentLSN = startLSN /\ startLSN > 0
    /\ out[j].Site = "emitBuffered" /\ out[j].Data.CurrentLSN > out[i].Data.CurrentLSN
    /\ out[k].Site = "streamChanges" /\ out[k].Data.CurrentLSN > out[j].Data.CurrentLSN

\* ------------------------------------------------------------- C6
\* No State message lies between two Records of one cycle's flush, and the
\* State of a cycle's flush follows all of that cycle's flushed Records.
FlushRec(m, c) == IsRecord(m) /\ m.Site = "emitBuffered" /\ m.Cycle = c

StateAfterWholeFlush ==
  \A i \in StateIdx(out) :
    /\ \A a, b \in 1 .. Len(out) :
         (a < i /\ i < b /\ IsRecord(out[a]) /\ out[a].Site = "emitBuffered")
           => ~FlushRec(out[b], out[a].Cycle)
    /\ out[i].Site = "emitBuffered" =>
         \A b \in 1 .. Len(out) : b > i => ~FlushRec(out[b], out[i].Cycle)

\* C6 (as claimed): every State message is written either by the flush that
\* ends a Phase-1 cycle, after all buffered streams were flushed, or while
\* handling a Commit in Phase 2.
C6_StateOnlyAtFlushOrCommit ==
  /\ \A i \in StateIdx(out) : out[i].Site \in {"emitBuffered", "streamChanges"}
  /\ StateAfterWholeFlush

\* C6 (amended): every State message is written at startup by reconciliation
\* (as the first message of the run), by the flush that ends a Phase-1 cycle
\* after all buffered streams were flushed, or while handling a Commit in
\* Phase 2; never inside a flush and never on a Commit of a Phase-1 drain.
C6_StateOnlyAtConsistentPoints ==
  /\ \A i \in StateIdx(out) :
       \/ out[i].Site = "updateState" /\ i = 1
       \/ out[i].Site \in {"emitBuffered", "streamChanges"}
  /\ StateAfterWholeFlush

\* C6 witness: one cycle flushed rows of two streams before its State, and a
\* Phase-2 Commit wrote a State.
C6_Witness ==
  /\ \E i \in 1 .. Len(out) - 2 :
       /\ FlushRec(out[i], out[i].Cycle) /\ FlushRec(out[i + 1], out[i].Cycle)
       /\ MsgStream(out[i]) # MsgStream(out[i + 1])
       /\ IsState(out[i + 2]) /\ out[i + 2].Site = "emitBuffered"
  /\ \E i \in StateIdx(out) : out[i].Site = "streamChanges"

\* ------------------------------------------------------------- C3
InsertsOf(tbl, k) ==
  {i \in 1 .. Len(out) : IsRecordOf(out[i], tbl, k) /\ out[i].Data["_change_type"] = "Insert"}

\* C3: when a table is backfilled with no concurrent writes, once it is Active
\* the keys of the Insert records emitted for it are exactly the keys present
\* in the table, each emitted exactly once (and never more than once before).
C3_KeyCoverage ==
  DataWrites = 0 =>
    \A tbl \in DataTables : \A k \in Keys :
      /\ Cardinality(InsertsOf(tbl, k)) <= 1
      /\ InsertsOf(tbl, k) # {} => k \in DOMAIN db[tbl]
      /\ ModeIn(state, tbl) = tableModeActive =>
           (k \in DOMAIN db[tbl] => InsertsOf(tbl, k) # {})

\* C3 witness: a table of MaxKey rows became Active after more than one chunk.
C3_Witness ==
  /\ DataWrites = 0
  /\ ModeIn(state, TblT) = tableModeActive
  /\ DOMAIN db[TblT] = Keys
  /\ \E i \in 1 .. Len(scans) : scans[i].Stream = TblT /\ ~scans[i].Complete

\* ------------------------------------------------------------- C10
ScansOf(tbl) == SeqFilterIn([i \in 1 .. Len(scans) |-> i],
                            {i \in 1 .. Len(scans) : scans[i].Stream = tbl})

\* C10: with chunk size N and no concurrent writes, a table of kN + r rows
\* (0 <= r < N) is scanned exactly k+1 times: the first k chunks hold N rows
\* and are not complete, the (k+1)-th holds r rows and is complete; after it
\* is flushed the stream is Active and it is not scanned again.
C10_ChunkBoundary ==
  DataWrites = 0 =>
    \A tbl \in DataTables :
      LET sc == ScansOf(tbl)
          n == Cardinality(DOMAIN db[tbl])
          k == n \div backfillChunkSize
          r == n % backfillChunkSize
      IN /\ Len(sc) <= k + 1
         /\ \A i \in 1 .. Len(sc) :
              /\ i <= k => (~scans[sc[i]].Complete /\ scans[sc[i]].Rows = backfillChunkSize)
              /\ i = k + 1 => (scans[sc[i]].Complete /\ scans[sc[i]].Rows = r)
         /\ ModeIn(state, tbl) = tableModeActive => Len(sc) = k + 1
         /\ (Len(sc) = k + 1 /\ pc \in {"drain", "stream", "done"} /\ toScan = <<>>
               /\ tbl \in DOMAIN state.Streams /\ cycle > Len(sc) + 1)
              => ModeIn(state, tbl) = tableModeActive

\* C10 witness: a table whose size is a multiple of the chunk size (r = 0) went
\* Active after a final empty chunk.
C10_Witness ==
  /\ DataWrites = 0
  /\ ModeIn(state, TblT) = tableModeActive
  /\ Cardinality(DOMAIN db[TblT]) = backfillChunkSize
  /\ Len(ScansOf(TblT)) = 2
  /\ scans[ScansOf(TblT)[2]].Rows = 0

\* ------------------------------------------------------------- C4
IsDataEntry(lsn) == <<wal[lsn].Namespace, wal[lsn].Table>> \in DataTables
DrainFrom(d) == IF d = 1 THEN startLSN ELSE fences[d - 1]
\* Drain d ran to its watermark.
DrainCompleted(d) == d < cycle \/ (d = cycle /\ pc \in {"flush", "scan"} /\ watermarkReached)

\* C4 (as claimed): every row event committed between two consecutive
\* watermarks is consumed in exactly one Phase-1 drain, never in none.
C4_EveryWindowDrained ==
  \A i \in 1 .. Len(consumed) :
    (cycle >= 1 /\ IsDataEntry(consumed[i].LSN) /\ consumed[i].LSN > fences[1]
       /\ consumed[i].LSN < fences[cycle])
      => consumed[i].Drain >= 1

\* C4 (amended): every row event is consumed at most once; an event consumed in
\* a Phase-1 drain lies in that drain's window (previous L(W), L(W)], and when
\* the drain for W runs to its watermark every row event of its window was
\* consumed in it. (Events after the last drained watermark, the final
\* undrained watermark included, are left to Phase 2.)
C4_Fencing ==
  /\ \A i, j \in 1 .. Len(consumed) : i < j => consumed[i].LSN # consumed[j].LSN
  /\ \A i \in 1 .. Len(consumed) :
       consumed[i].Drain >= 1 =>
         /\ DrainFrom(consumed[i].Drain) < consumed[i].LSN
         /\ consumed[i].LSN <= fences[consumed[i].Drain]
  /\ \A d \in 1 .. cycle :
       DrainCompleted(d) =>
         \A lsn \in (DrainFrom(d) + 1) .. fences[d] :
           \E i \in 1 .. Len(consumed) : consumed[i] = [LSN |-> lsn, Drain |-> d]

\* C4 witness: a data write committed between the first two watermarks was
\* consumed in the second drain, which ran to its watermark.
C4_Witness ==
  /\ cycle > 2
  /\ \E i \in 1 .. Len(consumed) :
       /\ consumed[i].Drain = 2
       /\ IsDataEntry(consumed[i].LSN)

\* ------------------------------------------------------------- C5
RecordsOf(tbl, k) == {i \in 1 .. Len(out) : IsRecordOf(out[i], tbl, k)}
WritesTo(tbl, k) ==
  {n \in 1 .. Len(wal) : <<wal[n].Namespace, wal[n].Table>> = tbl /\ wal[n].Fields.id = k}

\* C5: for every key the emitted records are that key's history in commit
\* order from some point onward: versions strictly increase, no write between
\* two emitted versions is left out, and a deletion is emitted as a Delete.
C5_PerKeyOrder ==
  \A tbl \in DataTables : \A k \in Keys :
    /\ \A i, j \in RecordsOf(tbl, k) :
         i < j =>
           /\ out[i].Data.v < out[j].Data.v
           /\ \A n \in WritesTo(tbl, k) :
                (out[i].Data.v < n /\ n < out[j].Data.v)
                  => \E m \in RecordsOf(tbl, k) : i < m /\ m < j /\ out[m].Data.v = n
    /\ \A i \in RecordsOf(tbl, k) :
         out[i].Data.v > 0 =>
           (out[i].Data["_change_type"] = "Delete" <=> wal[out[i].Data.v].Type = "Delete")

\* C5 witness: a key was emitted by a flush and later, after its table became
\* Active, by two replication events.
C5_Witness ==
  \E k \in Keys : \E i, j, m \in RecordsOf(TblT, k) :
    /\ i < j /\ j < m
    /\ out[i].Site = "emitBuffered"
    /\ out[j].Site = "streamChanges" /\ out[m].Site = "streamChanges"

\* ------------------------------------------------------------- C1
\* The value the output gives key k of tbl after its first n messages: the
\* value of the last record for the key, or -1 when there is none or it is a
\* Delete.
ViewAt(n, tbl, k) ==
  LET I == {i \in RecordsOf(tbl, k) : i <= n} IN
  IF I = {} THEN 0 - 1
  ELSE LET last == CHOOSE i \in I : \A j \in I : j <= i
       IN IF out[last].Data["_change_type"] = "Delete" THEN 0 - 1 ELSE out[last].Data.v

ValueAt(lsn, tbl, k) ==
  LET rows == Replay(db0, wal, lsn)[tbl] IN IF k \in DOMAIN rows THEN rows[k] ELSE 0 - 1

BecomesActiveAt(i, tbl) ==
  /\ i \in StateIdx(out)
  /\ ModeIn(out[i].Data, tbl) = tableModeActive
  /\ \A j \in StateIdx(out) : j < i => ModeIn(out[j].Data, tbl) # tableModeActive

\* C1: at the checkpoint in which a table becomes Active, the last record
\* emitted for each of its keys carries the value committed in the database at
\* that checkpoint's log position, and a key absent at that position has no
\* record or a Delete as its last record.
C1_LiveWritesInvariance ==
  \A tbl \in DataTables : \A i \in 1 .. Len(out) :
    BecomesActiveAt(i, tbl) =>
      \A k \in Keys : ViewAt(i, tbl, k) = ValueAt(out[i].Data.CurrentLSN, tbl, k)

\* ------------------------------------------------------------- C2
\* What a State message promises for a table: an Active table's records give
\* every key its value at the State's log position; a table in Backfill has
\* that for the keys up to Scanned and has no record beyond Scanned.
CheckpointConsistent(i, tbl) ==
  LET ps == out[i].Data
      ts == ps.Streams[tbl]
  IN \A k \in Keys :
       IF ts.Mode = tableModeActive
            \/ (ts.Mode = tableModeBackfill /\ ts.Scanned # <<>>
                  /\ compareTuples(EncodeTuple(<<k>>), ts.Scanned) <= 0)
         THEN ViewAt(i, tbl, k) = ValueAt(ps.CurrentLSN, tbl, k)
         ELSE {j \in RecordsOf(tbl, k) : j <= i} = {}

\* C2: restarting from a State message extends what was emitted before it: no
\* record emitted before the State is emitted again, no change of a key is
\* left out between two of its records, and every State message the resumed
\* run writes matches the database at its log position (nothing was skipped).
C2_Resumable ==
  /\ \A tbl \in DataTables : \A k \in Keys :
       \A i, j \in RecordsOf(tbl, k) :
         i < j =>
           /\ out[i].Data.v # out[j].Data.v
           /\ \A n \in WritesTo(tbl, k) :
                (out[i].Data.v < n /\ n < out[j].Data.v)
                  => \E m \in RecordsOf(tbl, k) : i < m /\ m < j /\ out[m].Data.v = n
  /\ \A i \in StateIdx(out) : \A tbl \in DataTables :
       (resumedAt # 0 /\ i > resumedAt /\ tbl \in DOMAIN out[i].Data.Streams)
         => CheckpointConsistent(i, tbl)

\* ------------------------------------------------- C11: emission sequence
\* What a message says downstream: a Record's stream, key and change type, a
\* State's mode and scanned key of every stream.
Said(m) ==
  IF IsRecord(m)
    THEN <<"Record", MsgStream(m), m.Data.id, m.Data._change_type>>
    ELSE <<"State", [id \in DOMAIN m.Data.Streams |->
                       <<m.Data.Streams[id].Mode, m.Data.Streams[id].Scanned>>]>>
SaidBy(o) == [i \in 1 .. Len(o) |-> Said(o[i])]

\* The chunks of a quiescent database, one cycle after another: pos maps each
\* stream to the last key scanned (0: none yet, -1: the stream is Active).
PosState(pos) ==
  <<"State", [id \in DOMAIN pos |->
                IF pos[id] = 0 - 1 THEN <<tableModeActive, <<>>>>
                ELSE <<tableModeBackfill, IF pos[id] = 0 THEN <<>> ELSE EncodeInt(pos[id])>>]>>
ChunkOf(rows, from, n) == FirstKeys({k \in DOMAIN rows : k > from}, n)
ChunkRecords(d, pos, n, id) ==
  IF pos[id] = 0 - 1 THEN <<>>
  ELSE LET ks == ChunkOf(d[id], pos[id], n)
       IN [i \in 1 .. Len(ks) |-> <<"Record", id, ks[i], "Insert">>]
NextPos(d, pos, n) ==
  [id \in DOMAIN pos |->
     IF pos[id] = 0 - 1 THEN 0 - 1
     ELSE LET ks == ChunkOf(d[id], pos[id], n)
          IN IF Len(ks) < n THEN 0 - 1 ELSE ks[Len(ks)]]
RECURSIVE ChunkCycles(_, _, _)
ChunkCycles(d, pos, n) ==
  IF \A id \in DOMAIN pos : pos[id] = 0 - 1 THEN <<>>
  ELSE ChunkRecords(d, pos, n, TblT) \o ChunkRecords(d, pos, n, TblU)
         \o <<PosState(NextPos(d, pos, n))>> \o ChunkCycles(d, NextPos(d, pos, n), n)
StartPos == [id \in DataTables |-> 0]

\* The sequence as stated: the initial State, then the chunks.
StatedSequence == <<PosState(StartPos)>> \o ChunkCycles(db0, StartPos, backfillChunkSize)
\* The sequence with the State of the flush that follows the first fence.
FencedSequence ==
  <<PosState(StartPos), PosState(StartPos)>> \o ChunkCycles(db0, StartPos, backfillChunkSize)

IsPrefix(a, b) == Len(a) <= Len(b) /\ a = SubSeq(b, 1, Len(a))
Quiescent == DataWrites = 0 /\ encodeErrAt = 0

\* C11 as stated: with no concurrent writes the output up to Phase 2 is the
\* initial State followed, for each cycle of chunks, by the chunk rows and one
\* State, and nothing else.
C11_SequenceAsStated ==
  Quiescent =>
    /\ IsPrefix(SaidBy(out), StatedSequence)
    /\ pc = "stream" => SaidBy(out) = StatedSequence

\* C11: with no concurrent writes the output up to Phase 2 is the initial
\* State, a second State written by the flush after the first fence (before
\* any chunk is scanned), and then for each cycle of chunks the chunk rows in
\* key order followed by exactly one State; no other message is written.
C11_EmissionSequence ==
  Quiescent =>
    /\ IsPrefix(SaidBy(out), FencedSequence)
    /\ pc = "stream" => SaidBy(out) = FencedSequence

C11_Witness ==
  /\ Quiescent
  /\ pc = "stream"
  /\ backfillChunkSize = 1
  /\ DOMAIN db0[TblT] = {1, 2}
  /\ Len(out) = 8

\* ------------------------------------------------- C12: race during backfill
\* The data writes logged are exactly an Update of key 2 and an Insert of key
\* 5 of TblT, both committed after the first watermark was written and before
\* the first scan was issued.
RaceWrites == {i \in 1 .. Len(wal) : IsDataEntry(i)}
RaceUpdate == CHOOSE i \in RaceWrites : wal[i].Type = "Update"
RaceInsert == CHOOSE i \in RaceWrites : wal[i].Type = "Insert"
RaceScenario ==
  /\ Len(fences) >= 2
  /\ Cardinality(RaceWrites) = 2
  /\ \E i, j \in RaceWrites :
       /\ wal[i].Type = "Update" /\ wal[i].Fields.id = 2
       /\ wal[j].Type = "Insert" /\ wal[j].Fields.id = 5
  /\ writeWindow = "firstScan"
  /\ \A i \in RaceWrites : fences[1] < i /\ i < fences[2]

\* A Record's key and value, a State's mode and scanned key of TblT.
Told(m) ==
  IF IsRecord(m) THEN <<"Record", m.Data.id, m.Data.v>>
  ELSE <<"State", m.Data.Streams[TblT].Mode, m.Data.Streams[TblT].Scanned>>
RECURSIVE FromFirstRecord(_)
FromFirstRecord(o) ==
  IF o = <<>> \/ IsRecord(Head(o)) THEN [i \in 1 .. Len(o) |-> Told(o[i])]
  ELSE FromFirstRecord(Tail(o))

RaceStated ==
  << <<"Record", 1, 0>>, <<"Record", 2, RaceUpdate>>,
     <<"State", tableModeBackfill, EncodeInt(2)>>,
     <<"Record", 3, 0>>, <<"Record", 4, 0>>, <<"Record", 5, RaceInsert>>,
     <<"State", tableModeActive, <<>>>> >>
RaceActual ==
  << <<"Record", 1, 0>>, <<"Record", 2, RaceUpdate>>,
     <<"State", tableModeBackfill, EncodeInt(2)>>,
     <<"Record", 3, 0>>, <<"Record", 4, 0>>,
     <<"State", tableModeBackfill, EncodeInt(4)>>,
     <<"Record", 5, RaceInsert>>,
     <<"State", tableModeActive, <<>>>> >>

\* C12 as stated: in the race scenario the output from the first record on is
\* Record(1), Record(2, x), State(scanned 2), Record(3), Record(4),
\* Record(5, y), State(Active).
C12_RaceAsStated ==
  RaceScenario =>
    /\ IsPrefix(FromFirstRecord(out), RaceStated)
    /\ pc = "stream" => FromFirstRecord(out) = RaceStated

\* C12: in the race scenario the output from the first record on is Record(1)
\* with its initial value, Record(2) with the updated value, State(scanned 2),
\* then Record(3), Record(4), State(scanned 4), and in a third cycle Record(5)
\* with the inserted value and State(Active); each of the five keys is emitted
\* exactly once.
C12_RaceDuringBackfill ==
  RaceScenario =>
    /\ IsPrefix(FromFirstRecord(out), RaceActual)
    /\ pc = "stream" =>
         /\ FromFirstRecord(out) = RaceActual
         /\ \A k \in RaceRows \cup RaceWriteKeys : Cardinality(RecordsOf(TblT, k)) = 1

C12_Witness ==
  /\ RaceScenario
  /\ pc = "stream"
  /\ Cardinality(RecordsOf(TblT, 5)) = 1
  /\ Len(out) = 10

\* ------------------------------------------------- C13: delete during backfill
\* The row version a Delete removed is not in the output, and neither is the
\* Delete.
DeletedVersion(lsn) == ValueAt(lsn - 1, <<wal[lsn].Namespace, wal[lsn].Table>>, wal[lsn].Fields.id)
NeverExisted(lsn) ==
  \A i \in 1 .. Len(out) :
    IsRecordOf(out[i], <<wal[lsn].Namespace, wal[lsn].Table>>, wal[lsn].Fields.id) =>
      /\ out[i].Data.v # DeletedVersion(lsn)
      /\ out[i].Data.v # lsn

\* C13 as stated: a row of a Backfill stream deleted after the first fence
\* while its key is greater than scanned gives neither an Insert record nor a
\* Delete record (in a run that is not cancelled).
C13_DeletedBeforeFlush == ~closed => \A lsn \in raceDeletes : NeverExisted(lsn)

\* The persistent state the capture holds during drain d: that of the last
\* State message of an earlier cycle.
StateDuring(d) ==
  LET S == {i \in StateIdx(out) : out[i].Cycle < d}
  IN out[CHOOSE i \in S : \A j \in S : j <= i].Data
\* The Deletes a Phase-1 drain consumed while the row's stream was in Backfill
\* and the row's key greater than scanned.
DrainedDeletes ==
  {j \in 1 .. Len(consumed) :
     /\ consumed[j].Drain >= 1
     /\ wal[consumed[j].LSN].Type = "Delete"
     /\ IsDataEntry(consumed[j].LSN)
     /\ NotYetFlushed(StateDuring(consumed[j].Drain), wal[consumed[j].LSN])}

\* C13: a row of a Backfill stream whose Delete is consumed by a drain while
\* the row's key is greater than scanned (the Delete was committed before the
\* watermark that closes the cycle of the row's chunk) gives neither an Insert
\* record nor a Delete record.
C13_DeleteDuringBackfill == \A j \in DrainedDeletes : NeverExisted(consumed[j].LSN)

C13_Witness ==
  /\ backfillChunkSize = 2
  /\ DOMAIN db0[TblT] = {1, 2}
  /\ pc = "stream"
  /\ RecordsOf(TblT, 1) # {}
  /\ \E j \in DrainedDeletes :
       /\ consumed[j].Drain = 2
       /\ wal[consumed[j].LSN].Fields.id = 2
       /\ \E n \in 1 .. Len(scans) : scans[n].Stream = TblT /\ scans[n].Rows = 2

\* ------------------------------------------------- C14: the watermarks table
\* C14: no record whose stream is the watermarks table is in the output, in
\* Phase 1 or in Phase 2, whatever the catalog and the resumed state contain.
C14_WatermarksNeverEmitted ==
  \A i \in 1 .. Len(out) : IsRecord(out[i]) => MsgStream(out[i]) # WatermarksTable

\* ------------------------------------------------- C15: streams follow the catalog
\* Reconciliation has succeeded and the capture has gone on.
Reconciled == pc \notin {"updateState", "failed"} \/ cycle >= 1
\* The streams the run was started with that the catalog no longer lists.
RemovedStreams == (DOMAIN startState.Streams) \ CatalogIDs(catalog)

\* C15: once reconciliation has succeeded the stream ids of the persistent
\* state are those of the catalog, for the rest of the run; a stream known
\* before and absent from the catalog is not in the State written at startup
\* (nor in a later one), and no record of it is written.
C15_StreamsFollowCatalog ==
  Reconciled =>
    /\ DOMAIN state.Streams = CatalogIDs(catalog)
    /\ \A i \in StateIdx(out) : DOMAIN out[i].Data.Streams = CatalogIDs(catalog)
    /\ RemovedStreams # {} =>
         /\ out # <<>> /\ IsState(out[1]) /\ out[1].Site = "updateState"
         /\ \A i \in 1 .. Len(out), id \in RemovedStreams :
              /\ IsRecord(out[i]) => MsgStream(out[i]) # id
              /\ IsState(out[i]) => id \notin DOMAIN out[i].Data.Streams

\* A write to the removed stream, logged after the resumed position, has been
\* consumed, and the run has reached Phase 2.
C15_Witness ==
  /\ pc = "stream"
  /\ TblOld \in RemovedStreams
  /\ \E j \in 1 .. Len(consumed) :
       /\ consumed[j].LSN > startLSN
       /\ <<wal[consumed[j].LSN].Namespace, wal[consumed[j].LSN].Table>> = TblOld
  /\ \A id \in DataTables : ModeIn(state, id) = tableModeActive

\* ------------------------------------------------- C16: key conflicts are fatal
\* The key a configured stream is scanned by: the catalog's, else the database's.
EffectiveKey(cs) ==
  LET id == joinStreamID(cs.Namespace, cs.Name) IN
  IF cs.PrimaryKey # <<>> THEN [i \in 1 .. Len(cs.PrimaryKey) |-> Head(cs.PrimaryKey[i])]
  ELSE IF id \in DOMAIN dbPrimaryKeys THEN dbPrimaryKeys[id] ELSE <<>>
\* A configured stream has no key, or a key other than the scan key the
\* resumed state holds for it.
KeyConflict ==
  \E i \in 1 .. Len(catalog) :
    LET id == joinStreamID(catalog[i].Namespace, catalog[i].Name) IN
    \/ EffectiveKey(catalog[i]) = <<>>
    \/ /\ id \in DOMAIN startState.Streams
       /\ EffectiveKey(catalog[i]) # startState.Streams[id].ScanKey

C17_ScanKeyImmutable ==
  [][\A id \in (DOMAIN state.Streams) \cap (DOMAIN state'.Streams) :
       state'.Streams[id].ScanKey = state.Streams[id].ScanKey]_vars

\* A stream resumed with a stored scan key has been reconciled, drained,
\* scanned and flushed to the end, next to a stream the run added.
C17_Witness ==
  /\ pc = "stream"
  /\ TblT \in DOMAIN startState.Streams
  /\ startState.Streams[TblT].Mode = tableModeBackfill
  /\ ModeIn(state, TblT) = tableModeActive
  /\ state.Streams[TblT].ScanKey = startState.Streams[TblT].ScanKey
  /\ ModeIn(state, TblU) = tableModeActive

\* ------------------------------------------------- C18: reconciliation
\* C18: a successful reconciliation gives every configured stream without a
\* TableState one in Backfill with scanned absent and the catalog's key, or
\* the database's when the catalog has none, and leaves the TableState of
\* every stream it knew unchanged; a failed one changes no TableState it knew.
C18_Reconciliation ==
  [][pc = "updateState" =>
       /\ \A id \in (DOMAIN state.Streams) \cap (DOMAIN state'.Streams) :
            state'.Streams[id] = state.Streams[id]
       /\ pc' = "begin" =>
            \A i \in 1 .. Len(catalog) :
              LET id == joinStreamID(catalog[i].Namespace, catalog[i].Name) IN
              /\ id \in DOMAIN state'.Streams
              /\ id \notin DOMAIN state.Streams =>
                   /\ state'.Streams[id].Mode = tableModeBackfill
                   /\ state'.Streams[id].Scanned = <<>>
                   /\ state'.Streams[id].ScanKey = EffectiveKey(catalog[i])]_vars

\* Reconciliation has added a stream with the catalog's key where the database
\* reports another.
C18_Witness ==
  /\ pc = "begin"
  /\ TblT \notin DOMAIN startState.Streams
  /\ dbPrimaryKeys[TblT] = <<"v">>
  /\ state.Streams[TblT].ScanKey = <<"id">>
  /\ state.Streams[TblT].Mode = tableModeBackfill

\* ------------------------------------------------- C19: Active has no scanned key
ActiveUnscanned(ps) ==
  \A id \in DOMAIN ps.Streams :
    ps.Streams[id].Mode = tableModeActive => ps.Streams[id].Scanned = <<>>

\* C19: in the persistent state and in every State message written, in first
\* runs and in resumed ones, a stream in Active mode has scanned absent.
C19_ActiveHasNoScanned ==
  /\ ActiveUnscanned(state)
  /\ \A i \in StateIdx(out) : ActiveUnscanned(out[i].Data)

\* A stream resumed in Backfill with a scanned key has become Active, after a
\* last chunk that held a row.
C19_Witness ==
  /\ TblT \in DOMAIN startState.Streams
  /\ startState.Streams[TblT].Scanned # <<>>
  /\ ModeIn(state, TblT) = tableModeActive
  /\ \E n \in 1 .. Len(scans) :
       scans[n].Stream = TblT /\ scans[n].Complete /\ scans[n].Rows > 0
  /\ \E i \in StateIdx(out) : ModeIn(out[i].Data, TblT) = tableModeActive

\* ------------------------------------------------- C20: encoder errors
\* C20: once an Encode has returned an error, for a Record or for a State, the
\* State of reconciliation included, the capture has terminated with an error
\* and no State message is written after the failed write.
C20_EncoderErrorIsFatal ==
  encodeFailed =>
    /\ pc = "failed"
    /\ \A i \in StateIdx(out) : i < encodeErrAt

\* ------------------------------------------------------------------ C21
\* C21: when the capture stops because the max_lifespan deadline expired or
\* because it was cancelled, RunCapture returns no error, wherever in the run
\* the context ended and whether the catalog is tailing or not.
C21_StopIsSuccess == cancelledBy # "" /\ returned # "" => returned = "nil"

\* What the code does: the error of updateState is returned before any error
\* is classified, and a cancellation in tailing mode is returned as an error
\* unless it is the streaming loop of Phase 2 that it ends.
C21_ErrorOnlyWhere ==
  cancelledBy # "" /\ returned = "error"
    => \/ state = startState /\ cycle = 0
       \/ tail /\ cancelledBy = "parent" /\ pc = "failed"

\* ------------------------------------------------------------------ C22
\* A whole poll_timeout interval has passed since the last message was written
\* (or since the start), the capture is running and its context has not ended.
WatchdogDue ==
  /\ ~tail /\ pollTimeout # 0
  /\ Running /\ ~closed
  /\ quiet >= pollTimeout

\* The step at which the watchdog cancels the capture.
WatchdogCancels == cancelledBy # "watchdog" /\ cancelledBy' = "watchdog"

\* C22: with poll_timeout configured in non-tailing mode, once a whole
\* poll_timeout interval has passed without a message being written the
\* watchdog timer has run out and the capture is cancelled; the watchdog
\* cancels only when a whole interval has passed since the last message was
\* written, and never in tailing mode or with poll_timeout unset.
C22_Watchdog ==
  /\ [](WatchdogDue => idle >= pollTimeout)
  /\ (WatchdogDue ~> (closed \/ ~Running \/ quiet < pollTimeout))
  /\ [][WatchdogCancels => ~tail /\ pollTimeout # 0 /\ quiet >= pollTimeout]_vars

\* The watchdog has cancelled a capture that had written messages, and the
\* capture has returned.
C22_Witness ==
  /\ cancelledBy = "watchdog"
  /\ out # <<>>
  /\ \E i \in 1 .. Len(out) : IsRecord(out[i])
  /\ returned = "nil"

\* ------------------------------------------------------------------ C23
\* No stream is in Backfill mode and the capture is in its streaming loop.
InPhase2 == pc = "stream" /\ pendingStreams(state) = <<>>

\* C23: Phase 1 terminates. The tables are finite and their writes stop, and
\* the reader delivers every watermark and its Commit unless the context is
\* ended; then every stream in Backfill mode becomes Active and the capture
\* enters Phase 2.
C23_Phase1Terminates == <>(closed \/ InPhase2)

\* Phase 2 was entered, with the context open, after a backfill of three
\* chunks that a write to the table made one chunk longer.
C23_Witness ==
  /\ InPhase2 /\ ~closed
  /\ Len(scans) >= 3
  /\ \E i \in 1 .. Len(wal) : wal[i].Type = "Insert" /\ <<wal[i].Namespace, wal[i].Table>> = TblT
  /\ \A id \in DOMAIN state.Streams : state.Streams[id].Mode = tableModeActive

\* ------------------------------------------------------------------ C24
\* The chunk that the row of flush record m was in (read by the scan, or
\* patched into it) was scanned after c watermark writes.
ScannedIn(m, c) ==
  \E n \in 1 .. Len(scans) :
    /\ scans[n].Stream = MsgStream(m)
    /\ scans[n].Cycle = c
    /\ compareTuples(EncodeInt(m.Data.id), scans[n].Resume) > 0

FlushRecords == {i \in 1 .. Len(out) : IsRecord(out[i]) /\ out[i].Site = "emitBuffered"}

\* The flush of this cycle has emitted its checkpoint.
Checkpointed(c) ==
  \E i \in StateIdx(out) : out[i].Site = "emitBuffered" /\ out[i].Cycle = c

\* C24 as stated: every chunk is flushed in the cycle in which it was scanned,
\* with no watermark write between its scan and its flush.
C24_FlushInScanCycle == \A i \in FlushRecords : ScannedIn(out[i], out[i].Cycle)

\* C24, as the code orders a pass of the loop: drain to the watermark written
\* last, flush the chunks buffered before that watermark was written, emit the
\* checkpoint, scan the next chunk of every pending stream, write the next
\* watermark. Each chunk is flushed exactly one watermark write and one drain
\* after its scan.
C24_CycleOrder ==
  /\ [](\A i \in FlushRecords : ScannedIn(out[i], out[i].Cycle - 1))
  /\ [][/\ (pc = "flush" /\ pc' = "scan")
            => /\ watermarkReached \/ closed
               /\ IsState(out'[Len(out')])
               /\ Checkpointed(cycle)'
               /\ cycle' = cycle
        /\ Len(scans') > Len(scans)
            => Checkpointed(cycle) /\ cycle' = cycle /\ out' = out
        /\ (cycle' # cycle /\ cycle >= 1)
            => /\ cycle' = cycle + 1
               /\ \A id \in DOMAIN state.Streams :
                    state.Streams[id].Mode = tableModeBackfill
                      => \E n \in 1 .. Len(scans) :
                           scans[n].Stream = id /\ scans[n].Cycle = cycle
               /\ pc' = "drain" \/ pendingStreams(state) = <<>>]_vars

\* A chunk scanned after the second watermark was flushed after the third,
\* the context open and an event of the drain between them received.
C24_Witness ==
  /\ ~closed
  /\ \E i \in FlushRecords : out[i].Cycle = 3 /\ ScannedIn(out[i], 2)
  /\ \E j \in 1 .. Len(consumed) : consumed[j].Drain = 3
  /\ Checkpointed(3)

\* ------------------------------------------------------------------ C25
\* The step in which streamToWatermark returns nil.
DrainReturns == pc = "drain" /\ pc' = "flush"

\* The drain returns on receiving the Commit of the awaited watermark, the
\* first Commit after the row event of that watermark, which this drain has
\* received; it receives nothing after it.
EndsAtFence ==
  /\ chan # <<>>
  /\ Head(chan) = CommitEvent(fences[cycle])
  /\ \E j \in 1 .. Len(consumed) : consumed[j] = [LSN |-> fences[cycle], Drain |-> cycle]
  /\ chan' = Tail(chan)
  /\ consumed' = consumed

\* C25: a Phase-1 drain for watermark W returns normally only upon the first
\* Commit received after the row event of the watermarks table that carries
\* W; earlier Commits and watermark events with another value do not end it,
\* and it consumes no event after that Commit.
C25_DrainEndsAtFence == [][DrainReturns => EndsAtFence]_vars

\* What the code does: the same, unless the channel is closed (C9).
C25_DrainEndsAtFenceOrClose == [][DrainReturns /\ ~closed => EndsAtFence]_vars

\* ------------------------------------------------------------------ C26
\* The rule that applies to a row event received by the drain, from the state
\* of its stream: "drop", "emit" or "patch". The key of the event is compared
\* as an integer.
DrainRule(evt) ==
  LET id == joinStreamID(evt.Namespace, evt.Table)
  IN IF id \notin DOMAIN state.Streams THEN "drop"
     ELSE LET T == state.Streams[id]
          IN IF T.Mode = tableModeIgnore THEN "drop"
             ELSE IF T.Mode = tableModeActive THEN "emit"
             ELSE IF T.Scanned # <<>> /\ evt.Fields[T.ScanKey[1]] <= DecodeKey(T.Scanned)
               THEN "emit"
             ELSE "patch"

\* The drain receives a row event.
DrainReceives == pc = "drain" /\ chan # <<>> /\ Head(chan).Type # "Commit" /\ chan' = Tail(chan)

EmittedDirectly(evt) ==
  out' = Append(out, RecordMsg(evt, "streamToWatermark", cycle))

\* C26: during a Phase-1 drain each row event is handled by exactly one rule:
\* dropped when its stream is unknown or ignored; emitted directly when its
\* stream is Active, or in Backfill with the row key at or below scanned;
\* passed to the patch of the result set, and not emitted, when its stream is
\* in Backfill with the row key above scanned or with no scanned key.
C26_OneRulePerEvent ==
  [][DrainReceives =>
       LET evt == Head(chan)
           id == joinStreamID(evt.Namespace, evt.Table)
       IN /\ DrainRule(evt) = "drop" => out' = out /\ results' = results
          /\ DrainRule(evt) = "emit" => EmittedDirectly(evt) /\ results' = results
          /\ DrainRule(evt) = "patch" => out' = out /\ results' = Patch(results, id, evt)
          /\ state' = state]_vars

\* A drain has dropped an event of an unknown stream (its watermark) and
\* emitted an event of a Backfill stream at or below its scanned key, and a
\* patch has changed the buffered chunk.
C26_Witness ==
  /\ pc = "drain"
  /\ \E j \in 1 .. Len(consumed) :
       consumed[j].Drain >= 1 /\ <<wal[consumed[j].LSN].Namespace, wal[consumed[j].LSN].Table>> = TblW
  /\ \E i \in 1 .. Len(out) :
       /\ IsRecord(out[i]) /\ out[i].Site = "streamToWatermark"
       /\ ModeIn(out[LastState(SubSeq(out, 1, i))].Data, MsgStream(out[i])) = tableModeBackfill
  /\ ~results.isNil
  /\ \E id \in DOMAIN results.streams, n \in 1 .. Len(scans) :
       /\ scans[n].Stream = id /\ scans[n].Cycle = cycle - 1
       /\ Cardinality(DOMAIN results.streams[id].rows) # scans[n].Rows

\* ------------------------------------------------------------------ C27
\* The step in which emitBuffered returns nil.
Flushes == pc = "flush" /\ pc' = "scan"

\* The messages the step has written.
Written == SubSeq(out', Len(out) + 1, Len(out'))

\* The streams with a buffered chunk.
Buffered == IF results.isNil THEN {} ELSE DOMAIN results.streams

\* The integer keys of the rows buffered for a stream.
BufferedKeys(id) == {DecodeKey(bs) : bs \in DOMAIN results.streams[id].rows}

\* The messages of the flush: an Insert record for every buffered row and no
\* other, the rows of a stream together and in ascending key order with the
\* buffered values, and the State message last.
FlushOutput ==
  LET new == Written
      n == Len(new)
  IN /\ n >= 1 /\ IsState(new[n])
     /\ \A i \in 1 .. n - 1 :
          /\ IsRecord(new[i]) /\ new[i].Site = "emitBuffered"
          /\ new[i].Data["_change_type"] = "Insert"
          /\ MsgStream(new[i]) \in Buffered
          /\ new[i].Data.id \in BufferedKeys(MsgStream(new[i]))
          /\ new[i].Data.v = results.streams[MsgStream(new[i])].rows[EncodeInt(new[i].Data.id)].Fields.v
     /\ \A id \in Buffered : \A k \in BufferedKeys(id) :
          \E i \in 1 .. n - 1 : IsRecordOf(new[i], id, k)
     /\ \A i, j \in 1 .. n - 1 :
          i < j /\ MsgStream(new[i]) = MsgStream(new[j]) =>
            /\ new[i].Data.id < new[j].Data.id
            /\ \A h \in i .. j : MsgStream(new[h]) = MsgStream(new[i])

\* The TableStates after the flush, the new scanned key of a stream whose
\* chunk was not complete given by Key(id).
FlushState(Key(_)) ==
  /\ DOMAIN state'.Streams = DOMAIN state.Streams
  /\ \A id \in DOMAIN state.Streams :
       LET T == state.Streams[id]
       IN state'.Streams[id] =
            IF id \notin Buffered THEN T
            ELSE IF results.streams[id].complete
              THEN [T EXCEPT !.Mode = tableModeActive, !.Scanned = <<>>]
            ELSE [T EXCEPT !.Scanned = Key(id)]
  /\ out'[Len(out')].Data = state'

\* The key of the last row the flush emitted for a stream.
LastEmitted(id) ==
  LET ks == BufferedKeys(id)
  IN IF ks = {} THEN <<>> ELSE EncodeInt(CHOOSE k \in ks : \A h \in ks : h <= k)

\* The scanned key of the buffered chunk: the greatest key its scan returned.
ChunkScanned(id) == results.streams[id].scanned

LexLess(a, b) == a[1] < b[1] \/ (a[1] = b[1] /\ a[2] < b[2])

\* The rows of the scanned table above the resume key.
Eligible == {r \in scan.rows : scan.resume = <<>> \/ LexLess(scan.resume, r)}

\* C28: a chunk scan with resume key R returns, in ascending order, the (at
\* most chunk_size) rows with the smallest key tuples strictly greater than R
\* in the lexicographic order of composite keys, and the chunk_size smallest
\* rows when there is no resume key; no row with a key at or below R is
\* returned.
C28_ChunkScan ==
  (scan.done /\ scan.limit > 0) =>
    LET res == scan.result
        n == Len(res)
    IN /\ n = IF Cardinality(Eligible) < scan.limit THEN Cardinality(Eligible) ELSE scan.limit
       /\ \A i \in 1 .. n : res[i] \in Eligible
       /\ \A i, j \in 1 .. n : i < j => LexLess(res[i], res[j])
       /\ \A r \in Eligible : (\A i \in 1 .. n : res[i] # r) => \A i \in 1 .. n : LexLess(res[i], r)

\* A scan resumed inside the table returned a full chunk whose first row has
\* a greater first and a smaller second column than the resume key, and left
\* out a row below the resume key.
C28_Witness ==
  /\ scan.done /\ scan.resume # <<>>
  /\ Len(scan.result) = 2 /\ scan.limit = 2
  /\ scan.result[1][1] > scan.resume[1]
  /\ scan.result[1][2] < scan.resume[2]
  /\ \E r \in scan.rows : LexLess(r, scan.resume)

\* ------------------------------------------------------------------ C29
\* The events of the current drain that were patched into the row of key k of
\* the chunk buffered for stream id, as indices of consumed: events of the
\* row, the key beyond the stream's scanned key and within the chunk's range.
PatchedInto(id, k) ==
  LET T == state.Streams[id]
      chunk == results.streams[id]
  IN {j \in 1 .. Len(consumed) :
        /\ consumed[j].Drain = cycle
        /\ consumed[j].LSN \in WritesTo(id, k)
        /\ T.Mode = tableModeBackfill
        /\ T.Scanned = <<>> \/ k > DecodeKey(T.Scanned)
        /\ chunk.complete \/ (chunk.scanned # <<>> /\ k <= DecodeKey(chunk.scanned))}

\* The last of them in log order.
LastPatched(id, k) ==
  wal[consumed[CHOOSE j \in PatchedInto(id, k) : \A h \in PatchedInto(id, k) : h <= j].LSN]

\* C29: when several events of one drain target the same buffered row, the
\* flush reflects the last of them only: after an Insert or Update the row is
\* flushed with that event's values, after a Delete it is not flushed,
\* whatever the earlier events of the key were.
C29_LastEventWins ==
  [][Flushes =>
       \A id \in Buffered : \A k \in Keys :
         PatchedInto(id, k) # {} =>
           LET e == LastPatched(id, k)
               recs == {i \in 1 .. Len(Written) : IsRecordOf(Written[i], id, k)}
           IN IF e.Type = "Delete" THEN recs = {}
              ELSE /\ Cardinality(recs) = 1
                   /\ \A i \in recs : /\ Written[i].Data.v = e.Fields.v
                                       /\ Written[i].Data["_change_type"] = "Insert"]_vars

\* The two events of the last drain targeted one row.
TwoPatches(t1, t2) ==
  \E a, b \in 1 .. Len(consumed) :
    /\ a < b /\ consumed[a].Drain = cycle /\ consumed[b].Drain = cycle
    /\ IsDataEntry(consumed[a].LSN) /\ IsDataEntry(consumed[b].LSN)
    /\ wal[consumed[a].LSN].Table = wal[consumed[b].LSN].Table
    /\ wal[consumed[a].LSN].Fields.id = wal[consumed[b].LSN].Fields.id
    /\ wal[consumed[a].LSN].Type = t1 /\ wal[consumed[b].LSN].Type = t2
    /\ \E i \in FlushRecords :
         /\ out[i].Cycle = cycle
         /\ out[i].Data.v = wal[consumed[b].LSN].Fields.v

\* A row deleted and inserted again within one drain was flushed with the
\* values of the Insert.
C29_Witness == pc = "scan" /\ ~closed /\ TwoPatches("Delete", "Insert")

\* ------------------------------------------------------------------ C30
\* The event has no row to patch: there is no result set, no chunk buffered
\* for its stream, or its key is beyond the range of that chunk.
NothingToPatch(evt) ==
  LET id == joinStreamID(evt.Namespace, evt.Table)
  IN \/ results.isNil
     \/ id \notin DOMAIN results.streams
     \/ /\ ~results.streams[id].complete
        /\ evt.Fields.id > DecodeKey(results.streams[id].scanned)

\* C30: an event passed to the patch whose key is outside the range of the
\* chunk buffered for its stream, or whose stream has no buffered chunk (in
\* the first drain of a run there is no result set at all), leaves the buffer
\* unchanged, emits nothing and raises no error.
C30_PatchOutsideIsNoOp ==
  [][DrainReceives /\ DrainRule(Head(chan)) = "patch" /\ NothingToPatch(Head(chan))
       => results' = results /\ out' = out /\ pc' = "drain"]_vars

\* The event the drain received last.
LastConsumed == wal[consumed[Len(consumed)].LSN]

\* The first drain of the run received an event of a Backfill stream, and a
\* later drain has just received an event beyond the range of the chunk
\* buffered for its stream.
C30_Witness ==
  /\ pc = "drain" /\ ~results.isNil
  /\ consumed # <<>> /\ consumed[Len(consumed)].Drain = cycle
  /\ IsDataEntry(consumed[Len(consumed)].LSN)
  /\ DrainRule(LastConsumed) = "patch" /\ NothingToPatch(LastConsumed)
  /\ \E j \in 1 .. Len(consumed) : consumed[j].Drain = 1 /\ IsDataEntry(consumed[j].LSN)

\* ------------------------------------------------------------------ C31
\* The streaming loop receives a Commit event.
StreamReceivesCommit ==
  pc = "stream" /\ chan # <<>> /\ Head(chan).Type = "Commit" /\ chan' = Tail(chan)

\* The number of Records written since the last State message (since the
\* start of the output when there is none).
RecordsSinceState ==
  LET from == IF StateIdx(out) = {} THEN 0 ELSE LastState(out)
  IN Cardinality({i \in from + 1 .. Len(out) : IsRecord(out[i])})

\* The checkpoint of a Commit: one State message, of the state that carries
\* the position lsn.
Checkpoint(lsn) ==
  /\ state' = [state EXCEPT !.CurrentLSN = lsn]
  /\ Len(out') = Len(out) + 1
  /\ IsState(out'[Len(out')]) /\ out'[Len(out')].Data = state'
  /\ SubSeq(out', 1, Len(out)) = out

\* C31: in Phase 2 a State message is emitted on a Commit event if and only if
\* a Record has been emitted since the last State message; it carries the log
\* position of that Commit; a Commit with no Record since the last State
\* changes neither the output nor current_log_position.
C31_CommitCheckpoint ==
  [][StreamReceivesCommit =>
       IF RecordsSinceState > 0 THEN Checkpoint(Head(chan).LSN)
       ELSE out' = out /\ state' = state]_vars

\* What the code does: the same, with the position of the reader task in
\* place of that of the Commit (C8).
C31_CommitCheckpointOfReader ==
  [][StreamReceivesCommit =>
       IF RecordsSinceState > 0 THEN Checkpoint(rdLSN) /\ rdLSN >= Head(chan).LSN
       ELSE out' = out /\ state' = state]_vars

\* ------------------------------------------------------------------ C32
\* The streaming loop receives a row event.
StreamReceivesRow ==
  pc = "stream" /\ chan # <<>> /\ Head(chan).Type # "Commit" /\ chan' = Tail(chan)

\* The stream of the event has a TableState, and its mode is Active.
HasActiveTableState(evt) ==
  \E id \in DOMAIN state.Streams :
    /\ id[1] = ToLower(IF evt.Namespace = "" THEN "public" ELSE evt.Namespace)
    /\ id[2] = ToLower(evt.Table)
    /\ state.Streams[id].Mode = "Active"

\* The output has grown by the Record of the event, and by nothing else.
EmitsRecordOf(evt) ==
  /\ Len(out') = Len(out) + 1 /\ SubSeq(out', 1, Len(out)) = out
  /\ LET m == out'[Len(out')]
     IN /\ IsRecord(m) /\ m.Namespace = evt.Namespace /\ m.Stream = evt.Table
        /\ m.Data._change_type = evt.Type
        /\ \A f \in DOMAIN evt.Fields : m.Data[f] = evt.Fields[f]

\* C32: in Phase 2 a row event is emitted as a Record if and only if its
\* stream has a TableState with mode Active; every other row event is dropped
\* without error and without changing any state.
C32_EmitIffActive ==
  [][StreamReceivesRow =>
       /\ state' = state /\ results' = results /\ watermark' = watermark
       /\ pc' = "stream" /\ returned' = returned
       /\ IF HasActiveTableState(Head(chan)) THEN EmitsRecordOf(Head(chan))
          ELSE out' = out /\ changes' = changes]_vars

\* The streaming loop has emitted a row event of an Active stream and has
\* dropped one of a stream that has no TableState.
C32_Witness ==
  /\ pc = "stream"
  /\ \E i, j \in DOMAIN consumed :
       /\ consumed[i].Drain = 0 /\ consumed[j].Drain = 0
       /\ ModeIn(state, joinStreamID(wal[consumed[i].LSN].Namespace, wal[consumed[i].LSN].Table)) = "Active"
       /\ ModeIn(state, joinStreamID(wal[consumed[j].LSN].Namespace, wal[consumed[j].LSN].Table)) = "none"
  /\ \E n \in DOMAIN out : IsRecord(out[n]) /\ out[n].Site = "streamChanges"

\* ------------------------------------------------------------------ C33
\* Some stream of the state has mode Backfill.
SomeBackfill == \E id \in DOMAIN state.Streams : state.Streams[id].Mode = "Backfill"

\* The capture takes an event from the channel.
ConsumesEvent ==
  /\ pc \notin {"failed", "done"} /\ chan # <<>> /\ chan' = Tail(chan)
  /\ consumed' # consumed \/ Head(chan).Type = "Commit"

\* The event is handled by a drain of Phase 1: it is taken by the drain of the
\* current cycle, and no checkpoint is written for it.
HandledByDrain ==
  /\ pc = "drain" /\ cycle > 0
  /\ Head(chan).Type # "Commit" => consumed' = Append(consumed, [LSN |-> Head(chan).LSN, Drain |-> cycle])
  /\ \A n \in Len(out) + 1 .. Len(out') : ~IsState(out'[n])

\* C33: events are handled in Phase-2 fashion only while no stream has mode
\* Backfill: the streaming loop is entered, and runs, only with no stream in
\* Backfill, and while a stream is in Backfill every event the capture
\* consumes is handled by a Phase-1 drain.
C33_Phase2OnlyWhenAllActive ==
  /\ [](pc = "stream" => ~SomeBackfill)
  /\ [][(pc # "stream" /\ pc' = "stream") => (~SomeBackfill /\ state' = state)]_vars
  /\ [][(ConsumesEvent /\ SomeBackfill) => HandledByDrain]_vars

\* The streaming loop runs after two drains, and events were consumed by the
\* second drain, with a stream in Backfill, and by the streaming loop.
C33_Witness ==
  /\ pc = "stream" /\ cycle > 2
  /\ \E i, j \in DOMAIN consumed : consumed[i].Drain = 2 /\ consumed[j].Drain = 0
  /\ \E n \in DOMAIN scans : scans[n].Cycle = 1 /\ ~scans[n].Complete

\* ------------------------------------------------------------------ C34
\* out[i] is a row of the chunk of stream tbl flushed in pass c: the chunk
\* buffered by the scan of pass c - 1.
ChunkRowAt(i, tbl, c) == FlushRec(out[i], c) /\ MsgStream(out[i]) = tbl

\* out[j] is a replication event of stream tbl emitted by the drain of pass c.
DrainRecAt(j, tbl, c) ==
  IsRecord(out[j]) /\ out[j].Site = "streamToWatermark" /\ out[j].Cycle = c
    /\ MsgStream(out[j]) = tbl

\* out[j] is a replication event of stream tbl emitted by the streaming loop.
StreamRecAt(j, tbl) ==
  IsRecord(out[j]) /\ out[j].Site = "streamChanges" /\ MsgStream(out[j]) = tbl

\* C34 as stated: the rows of the chunk buffered for a stream in one pass are
\* emitted before every replication event of that stream emitted by the drain
\* of the next pass (in a run whose event channel is open).
C34_ChunkBeforeNextDrain ==
  ~closed => \A tbl \in DataTables : \A c \in 2 .. cycle :
    \A i, j \in DOMAIN out :
      (ChunkRowAt(i, tbl, c) /\ DrainRecAt(j, tbl, c)) => i < j

\* C34: the rows of a chunk are emitted by the flush that follows the drain
\* of the pass after its scan. They come after the events of the stream which
\* that drain and the earlier ones emitted, those of that drain having keys
\* below every row of the chunk, and before every event of the stream emitted
\* by a later drain or by the streaming loop.
C34_ChunkOrder ==
  \A tbl \in DataTables : \A c \in 2 .. cycle :
    \A i, j \in DOMAIN out :
      ChunkRowAt(i, tbl, c) =>
        /\ \A d \in 1 .. cycle : DrainRecAt(j, tbl, d) => (i < j <=> d > c)
        /\ DrainRecAt(j, tbl, c) => out[j].Data.id < out[i].Data.id
        /\ StreamRecAt(j, tbl) => i < j

\* A drain has emitted an event of a stream between the scan and the flush
\* of a chunk of that stream, and the drain after the flush another one.
C34_Witness ==
  \E c \in 2 .. cycle : \E i, j, k \in DOMAIN out :
    /\ ChunkRowAt(i, TblT, c) /\ DrainRecAt(j, TblT, c) /\ DrainRecAt(k, TblT, c + 1)
    /\ j < i /\ i < k

\* ------------------------------------------------------------------ C35
\* A step of the replication reader task: an event is sent on the channel.
ReaderStep == Len(chan') > Len(chan) \/ rdNext' > rdNext

\* A step of the scanner: a chunk has been read.
ScannerStep == scans' # scans

\* A step of the watermark writer: a watermark has been written.
WatermarkWriterStep == uuidCtr' # uuidCtr

\* A step of the database's clients, or of the owner of the context.
OutsideStep == (wal' # wal /\ uuidCtr' = uuidCtr) \/ closed' # closed

\* The places of the Interleaver that assign to the state: updateState, the
\* Commit of a drain, the flush, and the Commit of the streaming loop.
InterleaverWrite ==
  \/ pc = "updateState"
  \/ pc \in {"drain", "stream"} /\ chan # <<>> /\ Head(chan).Type = "Commit" /\ chan' = Tail(chan)
  \/ pc = "flush"

\* C35: the persistent state is written only by the Interleaver: no step of
\* the replication reader, of the scanner, of the watermark writer or of
\* anything outside the capture changes it, so the state is the same after any
\* interleaving of such steps between two steps of the Interleaver.
C35_OnlyInterleaverWrites ==
  /\ [][(ReaderStep \/ ScannerStep \/ WatermarkWriterStep \/ OutsideStep) => state' = state]_vars
  /\ [][state' # state => InterleaverWrite]_vars

\* The reader is ahead of the Interleaver, in Phase 1, after a scan: its
\* position is beyond the stored one and its events wait in the channel.
C35_Witness ==
  /\ pc = "drain" /\ Len(chan) >= 2 /\ scans # <<>>
  /\ state.CurrentLSN > 0 /\ rdLSN > state.CurrentLSN
  /\ \E id \in DOMAIN state.Streams : state.Streams[id].Scanned # <<>>

\* ------------------------------------------------------------------ C36
\* The stream is in Backfill mode in the state ps.
InBackfill(ps, id) == id \in DOMAIN ps.Streams /\ ps.Streams[id].Mode = "Backfill"

\* The flush of a buffer that holds a chunk of stream id which is not complete.
FlushesPartialChunk(id) ==
  /\ pc = "flush" /\ pc' # "flush"
  /\ id \in Buffered /\ ~results.streams[id].complete

ChangesMode(id) ==
  /\ id \in DOMAIN state.Streams /\ id \in DOMAIN state'.Streams
  /\ state'.Streams[id].Mode # state.Streams[id].Mode

\* C37: the only change of mode of an existing TableState is from Backfill to
\* Active, made by the flush of a complete chunk of that stream; no stream goes
\* from Active to Backfill, none is put in Ignore mode, and none leaves it.
C37_OnlyBackfillToActive ==
  /\ [][\A id \in DOMAIN state.Streams : ChangesMode(id) =>
           /\ state.Streams[id].Mode = "Backfill" /\ state'.Streams[id].Mode = "Active"
           /\ pc = "flush" /\ id \in Buffered /\ results.streams[id].complete]_vars
  /\ [](\A i, j \in StateIdx(out) : \A id \in DOMAIN out[i].Data.Streams :
          (i < j /\ id \in DOMAIN out[j].Data.Streams) =>
             /\ out[i].Data.Streams[id].Mode = "Active" => out[j].Data.Streams[id].Mode = "Active"
             /\ out[i].Data.Streams[id].Mode = "Ignore" <=> out[j].Data.Streams[id].Mode = "Ignore")

\* The streaming loop has dropped an event of the stream in Ignore mode, after
\* the other stream went from Backfill to Active by the flush of a complete
\* chunk that followed one which was not complete.
C37_Witness ==
  /\ pc = "stream" /\ ~closed
  /\ ModeIn(state, TblT) = "Ignore" /\ ModeIn(state, TblU) = "Active"
  /\ \E n \in DOMAIN consumed : consumed[n].Drain = 0 /\ wal[consumed[n].LSN].Table = "t"
  /\ \E n, m \in DOMAIN scans : scans[n].Stream = TblU /\ ~scans[n].Complete
                                  /\ scans[m].Stream = TblU /\ scans[m].Complete
  /\ \E i \in StateIdx(out) : ModeIn(out[i].Data, TblU) = "Backfill"
                               /\ out[i].Data.Streams[TblU].Scanned # <<>>

\* ------------------------------------------------------------------ C38
\* The configured name of the watermarks table is character for character
\* the lower-case schema-qualified id of the events of stream evt.
NamesStreamOf(evt) ==
  /\ WatermarksTable[1] = ToLower(IF evt.Namespace = "" THEN "public" ELSE evt.Namespace)
  /\ WatermarksTable[2] = ToLower(evt.Table)

\* The configured name is the id under which the events of the table it
\* denotes arrive: lower case, with its schema.
ExactName ==
  /\ WatermarksTable[1] = ToLower(IF WatermarksTable[1] = "" THEN "public" ELSE WatermarksTable[1])
  /\ WatermarksTable[2] = ToLower(WatermarksTable[2])

\* The first drain has returned.
FirstDrainReturned == cycle > 1 \/ pc \in {"flush", "scan", "stream"}

\* C38: a drain recognises a watermark event only when the lower-case
\* schema-qualified id of the event equals the configured name of the
\* watermarks table character for character; when the configured name is not
\* of that form no watermark is ever recognised, and the first drain does not
\* return while the event channel is open.
C38_ExactNameOnly ==
  /\ [][(watermarkReached' /\ ~watermarkReached) =>
           /\ pc = "drain" /\ chan # <<>> /\ NamesStreamOf(Head(chan))
           /\ Head(chan).Fields["watermark"] = watermark]_vars
  /\ [](~ExactName => ~watermarkReached /\ (~closed => ~FirstDrainReturned))

\* With a name that has no schema the drain has received the watermark it
\* awaits, the Commit after it and a later transaction, and is still draining.
C38_Witness ==
  /\ WatermarksTable = <<"", "watermarks">>
  /\ pc = "drain" /\ ~closed /\ ~watermarkReached /\ chan = <<>>
  /\ \E n, m \in DOMAIN consumed :
       /\ consumed[n].LSN = fences[1] /\ wal[fences[1]].Fields["watermark"] = watermark
       /\ consumed[m].LSN > fences[1]
  /\ rdLSN > fences[1]

\* ------------------------------------------------------------------ C39
\* The state the run was started with lists exactly the streams of the
\* catalog, in a streams map.
ResumedMatchesCatalog ==
  /\ ~startState.StreamsNil
  /\ DOMAIN startState.Streams =
       {<<ToLower(IF catalog[i].Namespace = "" THEN "public" ELSE catalog[i].Namespace),
          ToLower(catalog[i].Name)>> : i \in DOMAIN catalog}

\* Reconciliation ends without an error.
Reconciles == pc = "updateState" /\ pc' = "begin"

\* The step appends the State message of the state it leaves, and no other.
EmitsStartupState ==
  /\ Len(out') = Len(out) + 1 /\ SubSeq(out', 1, Len(out)) = out
  /\ IsState(out'[Len(out')]) /\ out'[Len(out')].Data = state'

\* C39: reconciliation emits a State message if and only if it changed the
\* state (no streams map, a stream added, a stream removed), and nothing when
\* it fails; a run resumed with a state that matches the catalog emits no
\* State before that of its first flush or of a Commit of the streaming loop;
\* the State of reconciliation comes before every Record of the run.
C39_StartupState ==
  /\ [][Reconciles =>
          /\ state' # state <=> ~ResumedMatchesCatalog
          /\ IF state' # state THEN EmitsStartupState ELSE out' = out]_vars
  /\ [][(pc = "updateState" /\ pc' = "failed") => out' = out]_vars
  /\ [](\A i \in DOMAIN out :
          /\ (IsState(out[i]) /\ out[i].Site = "updateState") =>
                (~ResumedMatchesCatalog /\ \A j \in 1 .. i - 1 : ~IsRecord(out[j]))
          /\ (IsState(out[i]) /\ ResumedMatchesCatalog) =>
                out[i].Site \in {"emitBuffered", "streamChanges"})

\* A run resumed with a state that matches the catalog has written a Record
\* and then its first State message, at a Commit of the streaming loop.
C39_Witness ==
  /\ ResumedMatchesCatalog /\ state.Streams = startState.Streams
  /\ Len(out) >= 2 /\ IsRecord(out[1])
  /\ \E i \in StateIdx(out) : out[i].Site = "streamChanges" /\ \A j \in StateIdx(out) : i <= j

\* ------------------------------------------------------------------ C40
\* The sequence number a State.Data holds for a shard of a stream (0: none).
SequenceNumberIn(data, st, sh) ==
  IF st \in DOMAIN data /\ data[st].isMap /\ sh \in DOMAIN data[st].shards
    THEN data[st].shards[sh] ELSE 0

\* The shards that are read, the one of the state file that is not, and one
\* that is neither.
KinesisShards == {<<"s1", "a">>, <<"s1", "b">>, <<"s2", "a">>, <<"s3", "z">>, <<"s2", "z">>}

\* The results the consumer has received that carry no error, by their index.
Handled == {i \in DOMAIN kinesis.handled : kinesis.handled[i].Error = ""}

\* The number of messages the consumer writes for the results before the i-th.
RECURSIVE WrittenBefore(_)
WrittenBefore(i) ==
  IF i <= 1 THEN 0 ELSE WrittenBefore(i - 1) + Len(kinesis.handled[i - 1].Records) + 1

\* The latest sequence number of a shard after the i-th result: that of the
\* last result of the shard among the first i, and the state file's otherwise.
LatestAfter(i, st, sh) ==
  LET of == {j \in Handled : j <= i /\ kinesis.handled[j].Source = KinesisSource(st, sh)}
  IN IF of = {} THEN SequenceNumberIn(kinesis.file, st, sh)
     ELSE kinesis.handled[CHOOSE j \in of : \A k \in of : k <= j].SequenceNumber

\* The messages of the i-th result as far as they are written: its records in
\* order, one after the other, and then one State message with the latest
\* sequence number of every shard.
WrittenTogether(i) ==
  LET r == kinesis.handled[i]
      at == WrittenBefore(i)
      n == Len(r.Records)
  IN /\ \A k \in 1 .. n : at + k <= Len(kinesis.stdout) =>
            /\ kinesis.stdout[at + k].Type = "RECORD"
            /\ kinesis.stdout[at + k].Stream = r.Source.stream
            /\ kinesis.stdout[at + k].Data = r.Records[k]
     /\ at + n + 1 <= Len(kinesis.stdout) =>
            /\ kinesis.stdout[at + n + 1].Type = "STATE"
            /\ DOMAIN kinesis.stdout[at + n + 1].Data \subseteq {"s1", "s2", "s3"}
            /\ \A s \in KinesisShards :
                 SequenceNumberIn(kinesis.stdout[at + n + 1].Data, s[1], s[2]) = LatestAfter(i, s[1], s[2])
     /\ i < Len(kinesis.handled) => at + n + 1 <= Len(kinesis.stdout)

\* Every sequence number of a State message that is not the state file's is
\* that of a result whose records were all written before the message.
RecordsBeforeState ==
  \A p \in DOMAIN kinesis.stdout : kinesis.stdout[p].Type = "STATE" =>
    \A s \in KinesisShards :
      LET v == SequenceNumberIn(kinesis.stdout[p].Data, s[1], s[2])
      IN (v # 0 /\ v # SequenceNumberIn(kinesis.file, s[1], s[2])) =>
           \E i \in Handled :
             /\ kinesis.handled[i].Source = KinesisSource(s[1], s[2])
             /\ kinesis.handled[i].SequenceNumber = v
             /\ \A k \in DOMAIN kinesis.handled[i].Records :
                  \E q \in 1 .. p - 1 : /\ kinesis.stdout[q].Type = "RECORD"
                                         /\ kinesis.stdout[q].Data = kinesis.handled[i].Records[k]

\* The first result with an error ends the read: no State message is written
\* for it, the readers are cancelled and its error is returned.
ErrorEndsRead ==
  \A i \in DOMAIN kinesis.handled : kinesis.handled[i].Error # "" =>
    /\ i = Len(kinesis.handled)
    /\ kinesis.pc = "returned" /\ kinesis.cancelled
    /\ kinesis.returned = kinesis.handled[i].Error
    /\ \A p \in WrittenBefore(i) + 1 .. Len(kinesis.stdout) : kinesis.stdout[p].Type = "LOG"
    /\ Len(kinesis.stdout) <= WrittenBefore(i) + 1

\* C40: whatever the shard readers send and however their sends interleave
\* with the consumer, the consumer writes the records of one read result
\* together and in order and then exactly one State message, which holds the
\* sequence number of that result for its shard and the latest sequence
\* numbers of all other shards, read or loaded from the state file; no State
\* holds a sequence number whose records are not all written before it; the
\* first result with an error gets no State, cancels the readers and is
\* returned.
C40_KinesisCheckpoints ==
  kinesis.pc # "off" =>
    /\ \A i \in Handled : WrittenTogether(i)
    /\ Len(kinesis.stdout) <= WrittenBefore(Len(kinesis.handled) + 1)
    /\ RecordsBeforeState
    /\ ErrorEndsRead

\* The read has ended on a result with an error, after results of all three
\* shards were written while the channel held later ones; the last State
\* holds their sequence numbers and the two loaded from the state file.
C40_Witness ==
  /\ kinesis.pc = "returned" /\ kinesis.returned = "error"
  /\ \A src \in Sources : \E i \in Handled : /\ kinesis.handled[i].Source = src
                                               /\ kinesis.handled[i].Records # <<>>
  /\ SequenceNumberIn(kinesis.file, "s3", "z") = 7
  /\ SequenceNumberIn(kinesis.data, "s3", "z") = 7
  /\ SequenceNumberIn(kinesis.data, "s1", "a") > 10
  /\ kinesis.dataCh # <<>>
  /\ kinesis.stdout[Len(kinesis.stdout)].Type = "LOG"
====
